---- MODULE Spec2Model ----
(***************************************************************************)
(* Model of the GRB time-resolved spectral analysis pipeline (GBMAnalysis) *)
(* and of its steps: T90Calculator.calculate, BurstDetector.detect,        *)
(* GBMAnalysis.define_time_intervals, SpectralFitterManager's              *)
(* run_spectral_analysis and ResultsManager.save_results.                  *)
(*                                                                         *)
(* Times are integers counted in milliseconds (1.0 s = 1000, 1.024 s =     *)
(* 1024), counts are naturals, and every floating-point quantity is kept   *)
(* exact: a percentile is carried multiplied by 100, an interpolated time  *)
(* as a fraction num/den, and a comparison with a standard deviation is    *)
(* decided on the squares.  A float that the code computes as NaN is the   *)
(* value NaN here, and comparisons with it are false as in IEEE 754.       *)
(***************************************************************************)
EXTENDS Integers, Sequences, FiniteSets, TLC

VARIABLES
    lightcurve,   \* the binned light curve the data files hold (input)
    cfg,          \* ConfigManager.config, loaded at construction
    phaii7,       \* GBMAnalysis.phaii7
    T5, T95, T90, \* GBMAnalysis.T5 / T95 / T90
    burst_start,  \* GBMAnalysis.burst_start
    burst_end,    \* GBMAnalysis.burst_end
    time_ranges,  \* GBMAnalysis.time_ranges
    warnings,     \* advisories printed by the last define_time_intervals
    lastOp,       \* the method called last
    err,          \* what that call raised ("none" when it returned)
    fit_params,        \* ConfigManager.get_fitting_params()
    model_expression,  \* SpectralFitterManager.model_expression
    eval_indices,      \* SpectralFitterManager.eval_indices
    model_template,    \* SpectralFitterManager.model_template (a reference)
    models,            \* the model objects created so far, by reference
    rsps_interpoladas, \* run_spectral_analysis: the precomputed responses
    interpolations,    \* the rsp.interpolate calls made, in order
    loop_i,            \* run_spectral_analysis: intervals gone through
    results,           \* run_spectral_analysis: the results list
    fits,              \* the fitters constructed, in order
    lastFit,           \* the last fit_interval call and what it returned
    pcFit,             \* where run_spectral_analysis stands
    fitErr,            \* what run_spectral_analysis raised
    results_arg,       \* save_results: the results argument of the last call
    table,             \* save_results: the DataFrame the last call returned
    csv_file,          \* the rows of the output file (None: no file)
    files,             \* which input files exist: "all", or the kind missing
    cspecs,            \* GBMAnalysis.cspecs
    gbm_rsps,              \* GBMAnalysis.rsps
    bkgds,             \* GBMAnalysis.bkgds
    gbm_results,       \* GBMAnalysis.results
    summary,           \* what the last get_summary call returned
    run_no,            \* a repeated analysis: the run under way (1, 2)
    outcomes1,         \* what the fitter did per interval in the first run
    outcomes2,         \* what the fitter did per interval in the second run
    table1,            \* the aggregated table of the first run
    dicts,             \* BlockRunner: the dict objects alive, by reference
    objects,           \* BlockRunner.objects_data['objects']
    filter_names,      \* run_all_objects: its argument
    selected,          \* run_all_objects: the objects to analyse
    obj_i,             \* run_all_objects: objects gone through
    exitosos,          \* run_all_objects: count of successes
    fallidos,          \* run_all_objects: count of failures
    block_results,     \* run_all_objects: the results list
    temp_files,        \* the temp_<name>.yaml files that exist
    attempts,          \* the run_object calls made, in order
    yamls,             \* the configurations written for GBMAnalysis
    pcBlock            \* where run_all_objects stands

pipelineVars ==
    <<lightcurve, cfg, phaii7, T5, T95, T90, burst_start, burst_end,
      time_ranges, warnings, lastOp, err>>

fitVars ==
    <<fit_params, model_expression, eval_indices, model_template, models,
      rsps_interpoladas, interpolations, loop_i, results, fits, lastFit,
      pcFit, fitErr>>

saveVars == <<results_arg, table, csv_file>>

analysisVars == <<files, cspecs, gbm_rsps, bkgds, gbm_results, summary>>

twiceVars == <<run_no, outcomes1, outcomes2, table1>>

blockVars ==
    <<dicts, objects, filter_names, selected, obj_i, exitosos, fallidos,
      block_results, temp_files, attempts, yamls, pcBlock>>

extraVars == <<twiceVars, blockVars>>

vars == <<pipelineVars, fitVars, saveVars, analysisVars, extraVars>>

-----------------------------------------------------------------------------
(* Bounds of the model *)

MaxBins == 4

-----------------------------------------------------------------------------
(* Values *)

\* Python's None, and a present value x
None == <<>>

Some(x) == <<x>>

Val(o) == o[1]

RECURSIVE GCD(_, _)
GCD(a, b) == IF b = 0 THEN a ELSE GCD(b, a % b)

\* a float: NaN, or the exact number int + num/den, 0 <= num < den, in
\* lowest terms
NaN == [nan |-> TRUE, int |-> 0, num |-> 0, den |-> 1]

\* base + n/d for d > 0
Frac(base, n, d) ==
    LET g == GCD(n % d, d)
    IN  [nan |-> FALSE, int |-> base + n \div d,
         num |-> (n % d) \div g, den |-> d \div g]

\* IEEE comparisons: false as soon as one side is NaN
FLe(a, b) ==
    /\ ~a.nan /\ ~b.nan
    /\ \/ a.int < b.int
       \/ a.int = b.int /\ a.num * b.den <= b.num * a.den

FEq(a, b) == ~a.nan /\ ~b.nan /\ a = b

\* a - b, NaN as soon as one side is
FSub(a, b) ==
    IF a.nan \/ b.nan THEN NaN
    ELSE Frac(a.int - b.int, a.num * b.den - b.num * a.den, a.den * b.den)

\* s[lo] + ... + s[hi], by halves
RECURSIVE SumRange(_, _, _)
SumRange(s, lo, hi) ==
    IF lo > hi THEN 0
    ELSE IF lo = hi THEN s[lo]
    ELSE LET mid == (lo + hi) \div 2
         IN  SumRange(s, lo, mid) + SumRange(s, mid + 1, hi)

SumSeq(s) == SumRange(s, 1, Len(s))

Range(s) == {s[i] : i \in 1..Len(s)}

SetMin(S) == CHOOSE x \in S : \A y \in S : x <= y

SetMax(S) == CHOOSE x \in S : \A y \in S : y <= x

-----------------------------------------------------------------------------
(* Light curves: [t0, w, counts], bin i (from 0) covering                  *)
(* [t0 + i*w, t0 + (i+1)*w)                                                *)

\* the 1.0 s bin width BurstDetector.detect assumes
DetectorBinWidth == 1000

\* the 1.024 s bin width DataLoader.create_phaii_from_tte bins with
TteBinWidth == 1024

\* phaii.data.counts.sum(axis=1)
Counts(lc) == lc.counts

\* phaii.time_range[0]
TimeRangeStart(lc) == lc.t0

\* the time of sample i (from 0): the start of its bin
SampleTime(lc, i) == lc.t0 + i * lc.w

\* a faulty variant of TimeCentroid: the start of the bin
TimeCentroidAtBinStart(lc, i) == lc.t0 + i * lc.w

\* phaii.data.time_centroids[i] (from 0)
TimeCentroid(lc, i) == lc.t0 + i * lc.w + lc.w \div 2

-----------------------------------------------------------------------------
(* T90Calculator.calculate *)

\* np.cumsum(counts)
CumSum(counts) == [i \in 1..Len(counts) |-> SumRange(counts, 1, i)]

\* np.interp(p/q, cumulative, times) where cumulative is (cs - lo) / R, the
\* min-max normalised cumulative sum of a curve with R = max - min > 0: the
\* last j with cumulative[j] <= p/q, then the linear interpolation between
\* the samples j and j+1
Interp(lc, cs, lo, R, p, q) ==
    LET n == Len(cs)
        below == {i \in 1..n : q * (cs[i] - lo) <= p * R}
    IN  IF below = {} THEN Frac(TimeCentroid(lc, 0), 0, 1)
        ELSE LET j == SetMax(below)
             IN  IF j = n \/ q * (cs[j] - lo) = p * R
                 THEN Frac(TimeCentroid(lc, j - 1), 0, 1)
                 ELSE LET da == cs[j + 1] - cs[j]
                          dt == TimeCentroid(lc, j) - TimeCentroid(lc, j - 1)
                      IN  Frac(TimeCentroid(lc, j - 1),
                               dt * (p * R - q * (cs[j] - lo)), q * da)

\* the degenerate result: with max = min the normalisation divides 0 by 0
\* and the whole array is NaN; np.interp then returns fp[0] for a one-point
\* array and NaN otherwise.  Nothing raises.
CalculateDegenerate(lc) ==
    IF Len(Counts(lc)) = 1
    THEN <<Frac(TimeCentroid(lc, 0), 0, 1), Frac(TimeCentroid(lc, 0), 0, 1),
           Frac(0, 0, 1)>>
    ELSE <<NaN, NaN, NaN>>

\* T90Calculator.calculate(phaii): <<T5, T95, T90>>
Calculate(lc) ==
    LET cs == CumSum(Counts(lc))
        lo == SetMin(Range(cs))
        hi == SetMax(Range(cs))
    IN  IF hi = lo THEN CalculateDegenerate(lc)
        ELSE LET t5 == Interp(lc, cs, lo, hi - lo, 1, 20)
                 t95 == Interp(lc, cs, lo, hi - lo, 19, 20)
             IN  <<t5, t95, FSub(t95, t5)>>

-----------------------------------------------------------------------------
(* BurstDetector.detect *)

\* the k-th smallest count, k from 0 (what np.percentile partitions for)
KthSmallest(c, k) ==
    CHOOSE v \in Range(c) :
        /\ Cardinality({i \in 1..Len(c) : c[i] < v}) <= k
        /\ k < Cardinality({i \in 1..Len(c) : c[i] <= v})

\* 100 * np.percentile(c, p), linear interpolation between the two order
\* statistics around the position p/100 * (n-1)
Percentile100(c, p) ==
    LET pos == p * (Len(c) - 1)
        k == pos \div 100
        r == pos % 100
        lo == KthSmallest(c, k)
    IN  IF r = 0 THEN 100 * lo
        ELSE 100 * lo + r * (KthSmallest(c, k + 1) - lo)

\* counts[counts < np.percentile(counts, 50)]
NoiseSubset(c) ==
    LET median100 == Percentile100(c, 50)
    IN  SelectSeq(c, LAMBDA x : 100 * x < median100)

\* m^2 * np.var(s) for a sequence s of m elements
VarTimesM2(s) ==
    Len(s) * SumSeq([i \in 1..Len(s) |-> s[i] * s[i]]) - SumSeq(s) * SumSeq(s)

\* threshold = bkg_level + sigma * np.std(noise): np.std of an empty array
\* is NaN, and so is the threshold then.  Otherwise the threshold is
\* bkg100/100 + sigma * sqrt(v) / m.
Threshold(c, p, sigma) ==
    LET noise == NoiseSubset(c)
    IN  [nan |-> noise = <<>>,
         bkg100 |-> Percentile100(c, p),
         sigma |-> sigma,
         m |-> Len(noise),
         v |-> IF noise = <<>> THEN 0 ELSE VarTimesM2(noise)]

\* a faulty variant of Exceeds: counts >= threshold
ExceedsOrEqual(x, th) ==
    /\ ~th.nan
    /\ LET d == 100 * x - th.bkg100
       IN  /\ d >= 0
           /\ d * d * th.m * th.m >= 10000 * th.sigma * th.sigma * th.v

\* x > threshold (sigma >= 0), false for a NaN threshold
Exceeds(x, th) ==
    /\ ~th.nan
    /\ LET d == 100 * x - th.bkg100
       IN  /\ d > 0
           /\ d * d * th.m * th.m > 10000 * th.sigma * th.sigma * th.v

\* mask = counts > threshold, as the set of the indices (from 1) it selects
Mask(c, th) == {i \in 1..Len(c) : Exceeds(c[i], th)}

\* times[i] (from 0) = phaii.time_range[0] + i * 1.0
DetectTime(lc, i) == TimeRangeStart(lc) + i * DetectorBinWidth

\* BurstDetector.detect(phaii)
Detect(lc, params) ==
    LET c == Counts(lc)
        mask == Mask(c, Threshold(c, params.percentile_for_bkg,
                                  params.sigma_threshold))
    IN  IF mask = {}
        THEN [raised |-> TRUE, start |-> 0, end |-> 0]
        ELSE [raised |-> FALSE,
              start |-> DetectTime(lc, SetMin(mask) - 1),
              end |-> DetectTime(lc, SetMax(mask) - 1) + DetectorBinWidth]

-----------------------------------------------------------------------------
(* GBMAnalysis.define_time_intervals *)

\* fit_params.get('time_interval', 1.0)
DefaultTimeInterval == 1000

TimeInterval(c) ==
    IF c.time_interval = None THEN DefaultTimeInterval
    ELSE Val(c.time_interval)

\* a faulty variant of ResolveStart: the detected bound wins
ResolveStartDetected(manual, detected) == detected

\* start: manual if configured, else the detected burst_start
ResolveStart(manual, detected) ==
    IF manual # None THEN Val(manual) ELSE detected

\* stop: manual if configured, else the detected burst_end
ResolveStop(manual, detected) ==
    IF manual # None THEN Val(manual) ELSE detected

\* a faulty variant of InvalidRange: start == stop passes
InvalidRangeStrict(start, stop) == start > stop

\* if start >= stop: raise ValueError
InvalidRange(start, stop) == start >= stop

\* the advisories printed for a range reaching outside the detected burst
Advisories(start, stop, bstart, bend) ==
    {a \in {"start_before_burst"} : start < bstart}
        \cup {a \in {"stop_after_burst"} : stop > bend}

\* np.arange(start, stop, step), step > 0: ceil((stop - start) / step)
\* values start + i * step
Arange(start, stop, step) ==
    [i \in 1..((stop - start + step - 1) \div step) |-> start + (i - 1) * step]

\* faulty variants of KeepBin: a bin ending at stop is dropped / no bin is
\* dropped
KeepBinStrict(t, w, stop) == t + w < stop

KeepBinAlways(t, w, stop) == TRUE

\* if t + time_interval <= stop
KeepBin(t, w, stop) == t + w <= stop

\* [(t, t + w) for t in np.arange(start, stop, w) if t + w <= stop]
Segment(start, stop, w) ==
    LET kept == SelectSeq(Arange(start, stop, w),
                          LAMBDA t : KeepBin(t, w, stop))
    IN  [i \in 1..Len(kept) |-> <<kept[i], kept[i] + w>>]

-----------------------------------------------------------------------------
(* Inputs *)

T0s == {0 - DetectorBinWidth, 0}

BinWidths == {DetectorBinWidth, TteBinWidth}

CountValues == {0, 1, 4}

CountSeqs == UNION {[1..n -> CountValues] : n \in 1..MaxBins}

InputCurves ==
    {[t0 |-> t, w |-> w, counts |-> c] :
        t \in T0s, w \in BinWidths, c \in CountSeqs}

\* the scenario curve: 200 one-second bins from time 0, 10 counts per bin,
\* bins 80 to 120 at 150 counts per bin
ScenarioCurve ==
    [t0 |-> 0, w |-> 1000,
     counts |-> [i \in 1..200 |-> IF (i - 1) \in 80..120 THEN 150 ELSE 10]]

ScenarioConfig ==
    [percentile_for_bkg |-> 50, sigma_threshold |-> 5,
     time_interval |-> Some(1000),
     analysis_start |-> None, analysis_stop |-> None]

\* the scenario's window as a manual analysis window
ScenarioWindowConfig ==
    [ScenarioConfig EXCEPT !.analysis_start = Some(80000),
                           !.analysis_stop = Some(121000)]

Percentiles == {25, 50}

Sigmas == {1, 5}

TimeIntervals == {None, Some(1500)}

AnalysisStarts == {None, Some(0 - 500), Some(1000)}

AnalysisStops == {None, Some(1000), Some(2500)}

Configs ==
    [percentile_for_bkg : Percentiles, sigma_threshold : Sigmas,
     time_interval : TimeIntervals,
     analysis_start : AnalysisStarts, analysis_stop : AnalysisStops]

\* no manual window, default bin width
AutomaticWindow(c) ==
    /\ c.time_interval = None
    /\ c.analysis_start = None
    /\ c.analysis_stop = None

\* The runs explored: every curve under every detection setting with the
\* automatic window, and every window setting under the scenario's
\* detection setting on the one-second curves (detect never reads the bin
\* width of the curve, so the burst bounds are those of any width).
\* and the scenario's window, segment(80.0, 121.0, 1.0), as a manual window.
Runs ==
    {r \in [lightcurve : InputCurves, cfg : Configs] :
        \/ AutomaticWindow(r.cfg)
        \/ /\ r.cfg.percentile_for_bkg = ScenarioConfig.percentile_for_bkg
           /\ r.cfg.sigma_threshold = ScenarioConfig.sigma_threshold
           /\ r.lightcurve.w = DetectorBinWidth}
    \cup
    {[lightcurve |-> l, cfg |-> ScenarioWindowConfig] :
        l \in {x \in InputCurves : x.w = DetectorBinWidth /\ x.t0 = 0}}

-----------------------------------------------------------------------------
(* SpectralFitterManager *)

\* the most intervals a run is given
MaxIntervals == 3

\* available_models
RegisteredModels == {"Band", "PowerLaw", "Comptonized", "BlackBody"}

\* eval(model_expression, {"__builtins__": {}}, safe_dict), the expression
\* given as its tokens: a call of a name builds a model when the name is
\* registered and raises NameError otherwise, [] is an empty list, and
\* anything else here raises
Eval(tokens) ==
    IF Len(tokens) = 3 /\ tokens[2] = "(" /\ tokens[3] = ")"
    THEN IF tokens[1] \in RegisteredModels
         THEN [raised |-> FALSE, value |-> <<"model", tokens[1]>>]
         ELSE [raised |-> TRUE, value |-> <<>>]
    ELSE IF tokens = <<"[", "]">>
         THEN [raised |-> FALSE, value |-> <<"list">>]
         ELSE [raised |-> TRUE, value |-> <<>>]

\* Python's "not x" for None, a string or a list
Falsy(o) == o = None \/ Val(o) = <<>>

\* the attributes of the manager and the objects they refer to
Manager ==
    [model_expression |-> model_expression, eval_indices |-> eval_indices,
     model_template |-> model_template, models |-> models]

\* SpectralFitterManager.initialize_model: what it raised and the manager
\* it leaves
InitializeModel(fp, m) ==
    LET named == [m EXCEPT !.model_expression = fp.model_expression]
    IN  IF Falsy(fp.model_expression)
        THEN [raised |-> TRUE, mgr |-> named]
        ELSE LET e == Eval(Val(fp.model_expression))
             IN  IF e.raised
                 THEN [raised |-> TRUE, mgr |-> named]
                 ELSE [raised |-> Falsy(fp.eval_indices),
                       mgr |->
                         [named EXCEPT
                            !.models =
                                Append(@, [value |-> e.value, state |-> <<>>]),
                            !.model_template = Some(Len(m.models) + 1),
                            !.eval_indices = fp.eval_indices]]

\* a faulty variant of CreateModelForInterval: the template is built anew
\* for every interval
CreateModelReinitializing(fp, m) ==
    LET r == InitializeModel(fp, m)
    IN  IF r.raised
        THEN [raised |-> TRUE, mgr |-> r.mgr, model |-> 0]
        ELSE [raised |-> FALSE,
              mgr |-> [r.mgr EXCEPT
                         !.models = Append(@, @[Val(r.mgr.model_template)])],
              model |-> Len(r.mgr.models) + 1]

\* a faulty variant of CreateModelForInterval: the template itself is
\* handed out
CreateModelSharingTemplate(fp, m) ==
    LET r == IF m.model_template = None THEN InitializeModel(fp, m)
             ELSE [raised |-> FALSE, mgr |-> m]
    IN  IF r.raised
        THEN [raised |-> TRUE, mgr |-> r.mgr, model |-> 0]
        ELSE [raised |-> FALSE, mgr |-> r.mgr,
              model |-> Val(r.mgr.model_template)]

\* SpectralFitterManager.create_model_for_interval: deepcopy makes a new
\* object holding the template's state
CreateModelForInterval(fp, m) ==
    LET r == IF m.model_template = None THEN InitializeModel(fp, m)
             ELSE [raised |-> FALSE, mgr |-> m]
    IN  IF r.raised
        THEN [raised |-> TRUE, mgr |-> r.mgr, model |-> 0]
        ELSE [raised |-> FALSE,
              mgr |-> [r.mgr EXCEPT
                         !.models = Append(@, @[Val(r.mgr.model_template)])],
              model |-> Len(r.mgr.models) + 1]

\* the detectors of the collections (DataLoader.load_cspec_data)
Detectors == <<"nai1", "nai2", "bgo1">>

\* a faulty variant of Midpoint: the start of the interval
MidpointAtStart(t0, t1) == Frac(t0, 0, 1)

\* tcent = (t0 + t1) / 2
Midpoint(t0, t1) == Frac(0, t0 + t1, 2)

\* rsp.interpolate(tcent): the response of detector det at time tcent
Interpolate(det, tcent) == [det |-> det, tcent |-> tcent]

\* SpectralFitterManager.precompute_responses: the list it returns
PrecomputeResponses(rsps, tr) ==
    [k \in 1..Len(tr) |->
        [d \in 1..Len(rsps) |->
            Interpolate(rsps[d], Midpoint(tr[k][1], tr[k][2]))]]

\* ... and the rsp.interpolate calls it makes, in order: interval by
\* interval, the detectors in turn
InterpolateCalls(rsps, tr) ==
    [c \in 1..(Len(tr) * Len(rsps)) |->
        LET k == ((c - 1) \div Len(rsps)) + 1
            d == ((c - 1) % Len(rsps)) + 1
        IN  [interval |-> k, det |-> rsps[d],
             tcent |-> Midpoint(tr[k][1], tr[k][2])]]

\* fit_params.get('max_fit_time', 10), in seconds
DefaultMaxFitTime == 10

MaxFitTime(fp) ==
    IF fp.max_fit_time = None THEN DefaultMaxFitTime ELSE Val(fp.max_fit_time)

\* fit_params.get('relative_error_threshold', 0.2), as <<num, den>>
DefaultErrorThreshold == <<1, 5>>

ErrorThreshold(fp) ==
    IF fp.relative_error_threshold = None THEN DefaultErrorThreshold
    ELSE Val(fp.relative_error_threshold)

\* time.time() - start_time > max_fit_time
\* a faulty variant of TimedOut: no fit is ever too slow
TimedOutNever(elapsed, fp) == FALSE

\* a faulty variant of TimedOut: a fit that took exactly the limit is
\* rejected as well
TimedOutAtLimit(elapsed, fp) == elapsed >= MaxFitTime(fp)

TimedOut(elapsed, fp) == elapsed > MaxFitTime(fp)

\* np.isfinite(fitter.statistic), the statistic given as its repr
IsFinite(x) == x \notin {"inf", "-inf", "nan"}

\* a faulty variant of CovarianceInvalid: the entries are not looked at
CovarianceMissing(c) == c = None

\* fitter.covariance is None or np.isnan(fitter.covariance).any()
CovarianceInvalid(c) ==
    c = None \/ \E j \in 1..Len(Val(c)) : Val(c)[j] = "nan"

\* len(errs) != len(params)
RowsMismatch(errs, params) == Len(errs) # Len(params)

Abs(x) == IF x < 0 THEN 0 - x ELSE x

\* A relative error, exact: num/den, or, when floored is set, num/(2 eps)
\* with num > 0, the value of a parameter whose magnitude is below eps =
\* 1e-10.  Parameters and errors are integers counted in one unit far above
\* eps, so a floored value is above every other value and every threshold.
Rel(n, d) == [floored |-> FALSE, num |-> n \div GCD(n, d), den |-> d \div GCD(n, d)]

\* np.mean(np.abs(errs[j]) / np.maximum(np.abs(params[j]), eps))
RelErr(param, row) ==
    LET total == Abs(row[1]) + Abs(row[2])
    IN  IF param # 0 THEN Rel(total, 2 * Abs(param))
        ELSE IF total = 0 THEN Rel(0, 1)
        ELSE [floored |-> TRUE, num |-> total, den |-> 1]

\* rel_errs, one per parameter
RelErrs(errs, params) ==
    [j \in 1..Len(params) |-> RelErr(params[j], errs[j])]

\* a < b on relative errors
RelLess(a, b) ==
    IF a.floored = b.floored THEN a.num * b.den < b.num * a.den
    ELSE b.floored

\* rel_errs[self.eval_indices] raises IndexError
IndexError(ev, n) == \E j \in 1..Len(ev) : ev[j] >= n \/ ev[j] < 0 - n

\* a faulty variant of RelErrsEval: every parameter is taken
RelErrsAll(rel, ev) == Range(rel)

\* rel_errs[self.eval_indices], as the set of its values
RelErrsEval(rel, ev) == {rel[(ev[j] % Len(rel)) + 1] : j \in 1..Len(ev)}

\* np.max
MaxRel(S) == CHOOSE x \in S : \A y \in S : ~RelLess(x, y)

\* a faulty variant of Acceptable: a relative error equal to the threshold
\* passes
AcceptableOrEqual(max_rel, thr) == ~RelLess(Rel(thr[1], thr[2]), max_rel)

\* max_rel < error_threshold
Acceptable(max_rel, thr) == RelLess(max_rel, Rel(thr[1], thr[2]))

\* SpectralFitterManager._create_result_dict
CreateResultDict(t0, t1, o) ==
    [t_start |-> t0, t_stop |-> t1, Cstat |-> o.statistic,
     parameters |-> o.parameters, errors |-> o.errors]

\* rel_errs[self.eval_indices] for the attribute as it stands: indexing
\* with None adds an axis and keeps every parameter
SelectRelErrs(rel, ev) ==
    IF ev = None THEN Range(rel) ELSE RelErrsEval(rel, Val(ev))

\* fit_interval after fitter.fit returned: the checks of lines 127-166, an
\* exception among them (an index out of range, np.max of an empty
\* selection) caught at line 168; ev is self.eval_indices
Validate(fp, ev, o, t0, t1) ==
    IF TimedOut(o.elapsed, fp) THEN None
    ELSE IF ~IsFinite(o.statistic) THEN None
    ELSE IF CovarianceInvalid(o.covariance) THEN None
    ELSE IF RowsMismatch(o.errors, o.parameters) THEN None
    ELSE IF ev # None /\ IndexError(Val(ev), Len(o.parameters)) THEN None
    ELSE IF SelectRelErrs(RelErrs(o.errors, o.parameters), ev) = {} THEN None
    ELSE IF Acceptable(MaxRel(SelectRelErrs(RelErrs(o.errors, o.parameters),
                                            ev)),
                       ErrorThreshold(fp))
         THEN Some(CreateResultDict(t0, t1, o))
         ELSE None

\* fitter.fit(model, ...) writes the fitted parameters into the model it
\* is given; a list is not written to
FitWrites(obj, k) ==
    IF obj.value[1] = "model" THEN [obj EXCEPT !.state = Append(@, k)]
    ELSE obj

\* SpectralFitterManager.fit_interval for interval k = (t0, t1) when the
\* fitter behaves as o: the manager it leaves, what it returns and the
\* fitter it constructed
FitInterval(fp, m, o, rsps, k, t0, t1) ==
    LET c == CreateModelForInterval(fp, m)
    IN  IF c.raised
        THEN [mgr |-> c.mgr, result |-> None, fitters |-> <<>>]
        ELSE IF o.ctor = "raises"
        THEN [mgr |-> c.mgr, result |-> None,
              fitters |-> <<[interval |-> k, rsps |-> rsps,
                             model |-> c.model, fit |-> FALSE]>>]
        ELSE LET fitted == [c.mgr EXCEPT
                              !.models[c.model] = FitWrites(@, k)]
                 fitter == <<[interval |-> k, rsps |-> rsps,
                              model |-> c.model, fit |-> TRUE]>>
             IN  IF o.fit = "raises"
                 THEN [mgr |-> fitted, result |-> None, fitters |-> fitter]
                 ELSE [mgr |-> fitted,
                       result |-> Validate(fp, c.mgr.eval_indices, o,
                                           t0, t1),
                       fitters |-> fitter]

-----------------------------------------------------------------------------
(* ResultsManager.save_results *)

RECURSIVE SortValues(_)

\* a faulty variant of SortValues: the rows are left in input order
SortValuesInputOrder(rows) == rows

\* df.sort_values('t_start').reset_index(drop=True)
SortValues(rows) ==
    IF rows = <<>> THEN <<>>
    ELSE LET last == rows[Len(rows)]
             init == SortValues(SubSeq(rows, 1, Len(rows) - 1))
             k == Cardinality({j \in 1..Len(init) :
                                  init[j].t_start <= last.t_start})
         IN  SubSeq(init, 1, k) \o <<last>> \o SubSeq(init, k + 1, Len(init))

\* ResultsManager.save_results(results): the DataFrame it returns and the
\* rows of the output file afterwards
SaveResults(rows, file) ==
    IF rows = <<>>
    THEN [table |-> <<>>, file |-> file]
    ELSE [table |-> SortValues(rows), file |-> Some(SortValues(rows))]

-----------------------------------------------------------------------------
(* Inputs of the spectral analysis *)

\* a curve with a burst in its last two bins, and the detection setting
\* it is analysed with
FitCurve == [t0 |-> 0, w |-> DetectorBinWidth, counts |-> <<0, 1, 4, 4>>]

FitDetection ==
    [percentile_for_bkg |-> 50, sigma_threshold |-> 1,
     time_interval |-> None, analysis_start |-> None, analysis_stop |-> None]

\* the windows: 1 to MaxIntervals one-second intervals ending at the end of
\* the burst, one interval with a midpoint off the millisecond grid, and a
\* bin wider than the burst, which leaves no interval
FitConfigs ==
    {[FitDetection EXCEPT
        !.time_interval = Some(DetectorBinWidth),
        !.analysis_start =
            Some(Detect(FitCurve, FitDetection).end - k * DetectorBinWidth)] :
        k \in 1..MaxIntervals}
    \cup {[FitDetection EXCEPT !.time_interval = Some(1001)],
          [FitDetection EXCEPT !.time_interval = Some(3000)]}

\* model_expression: absent, '', 'PowerLaw()', 'Foo()', '[]'
Expressions ==
    {None, Some(<<>>), Some(<<"PowerLaw", "(", ")">>),
     Some(<<"Foo", "(", ")">>), Some(<<"[", "]">>)}

\* eval_indices: absent, [], [0], [1], [0, 1], [2]
EvalIndexChoices ==
    {None, Some(<<>>), Some(<<0>>), Some(<<1>>), Some(<<0, 1>>), Some(<<2>>)}

\* relative_error_threshold: absent, 0.1
ErrorThresholds == {None, Some(<<1, 10>>)}

FitParamChoices ==
    [model_expression : Expressions, eval_indices : EvalIndexChoices,
     relative_error_threshold : ErrorThresholds, max_fit_time : {None}]

ScenarioFitParams ==
    [model_expression |-> Some(<<"PowerLaw", "(", ")">>),
     eval_indices |-> Some(<<0>>),
     relative_error_threshold |-> None, max_fit_time |-> None]

\* What the fitter (gdt's SpectralFitterCstat) can do in one fit_interval
\* call.  Parameters and their asymmetric errors are integers counted in
\* hundredths; the model 'PowerLaw()' has the two free parameters A and
\* index.
ParamFits ==
    {[value |-> 100, err |-> <<0 - 10, 10>>],
     [value |-> 100, err |-> <<0 - 10, 30>>],
     [value |-> 0 - 100, err |-> <<0 - 30, 30>>],
     [value |-> 0, err |-> <<0 - 10, 10>>]}

PowerLawParams == <<"A", "index">>

Profiles == [1..Len(PowerLawParams) -> ParamFits]

GoodFit == [j \in 1..Len(PowerLawParams) |-> [value |-> 100, err |-> <<0 - 10, 10>>]]

Statistics == {"12.5", "40.0", "inf", "nan"}

Covariances ==
    {None, Some(<<"1.0", "0.0", "0.0", "1.0">>),
     Some(<<"1.0", "nan", "nan", "1.0">>)}

\* the seconds fitter.fit took: the limit itself, and one more
ElapsedTimes == {DefaultMaxFitTime, DefaultMaxFitTime + 1}

Returns(elapsed, stat, cov, params, errs) ==
    [ctor |-> "ok", fit |-> "returns", elapsed |-> elapsed,
     statistic |-> stat, covariance |-> cov, parameters |-> params,
     errors |-> errs]

\* the constructor raises / fitter.fit raises
RaisingOutcomes ==
    {[ctor |-> c, fit |-> f, elapsed |-> 0, statistic |-> "nan",
      covariance |-> None, parameters |-> <<>>, errors |-> <<>>] :
        c \in {"raises"}, f \in {"not called"}}
    \cup
    {[ctor |-> c, fit |-> f, elapsed |-> 0, statistic |-> "nan",
      covariance |-> None, parameters |-> <<>>, errors |-> <<>>] :
        c \in {"ok"}, f \in {"raises"}}

\* fitter.fit returns: every combination of duration, statistic and
\* covariance with well-constrained parameters, the error array complete
\* or one row short; and every combination of parameter values and errors
\* with the rest in order
ReturningOutcomes ==
    {Returns(e, s, c, [j \in 1..Len(GoodFit) |-> GoodFit[j].value],
             [j \in 1..n |-> GoodFit[j].err]) :
        e \in ElapsedTimes, s \in Statistics, c \in Covariances,
        n \in {Len(GoodFit) - 1, Len(GoodFit)}}
    \cup
    {Returns(DefaultMaxFitTime, "12.5", Some(<<"1.0", "0.0", "0.0", "1.0">>),
             [j \in 1..Len(p) |-> p[j].value],
             [j \in 1..Len(p) |-> p[j].err]) :
        p \in Profiles}

\* a fitter handed something that is not a model raises
FitOutcomes(value) ==
    IF value[1] = "model" THEN RaisingOutcomes \cup ReturningOutcomes
    ELSE RaisingOutcomes

\* the result lists save_results is called with: the rows of accepted fits
\* of the intervals, one row at most per interval, in any order
SaveRows(tr) ==
    {CreateResultDict(tr[k][1], tr[k][2],
                      Returns(DefaultMaxFitTime, s,
                              Some(<<"1.0", "0.0", "0.0", "1.0">>),
                              [j \in 1..Len(GoodFit) |-> GoodFit[j].value],
                              [j \in 1..Len(GoodFit) |-> GoodFit[j].err])) :
        k \in 1..Len(tr), s \in {"12.5", "40.0"}}

ResultLists(tr) ==
    {l \in UNION {[1..n -> SaveRows(tr)] : n \in 0..Len(tr)} :
        \A a \in 1..Len(l), b \in 1..Len(l) :
            a # b => l[a].t_start # l[b].t_start}

-----------------------------------------------------------------------------
(* State machine *)

\* GBMAnalysis.__init__: nothing loaded, no backgrounds, results = []
AnalysisConstructed ==
    /\ cspecs = None
    /\ gbm_rsps = None
    /\ bkgds = None
    /\ gbm_results = <<>>
    /\ summary = None

\* SpectralFitterManager.__init__, and run_spectral_analysis not called yet
FitterConstructed ==
    /\ model_expression = None
    /\ eval_indices = None
    /\ model_template = None
    /\ models = <<>>
    /\ rsps_interpoladas = None
    /\ interpolations = <<>>
    /\ loop_i = 0
    /\ results = None
    /\ fits = <<>>
    /\ lastFit = None
    /\ pcFit = "idle"
    /\ fitErr = "none"

\* no repeated analysis under way
NotRepeated ==
    /\ run_no = 1
    /\ outcomes1 = <<>>
    /\ outcomes2 = <<>>
    /\ table1 = None

\* no BlockRunner
NoBlock ==
    /\ dicts = <<>>
    /\ objects = <<>>
    /\ filter_names = None
    /\ selected = <<>>
    /\ obj_i = 0
    /\ exitosos = 0
    /\ fallidos = 0
    /\ block_results = <<>>
    /\ temp_files = {}
    /\ attempts = <<>>
    /\ yamls = <<>>
    /\ pcBlock = "none"

ExtrasIdle == NotRepeated /\ NoBlock

\* save_results not called yet, no output file
NothingSaved ==
    /\ results_arg = None
    /\ table = None
    /\ csv_file = None


Init ==
    /\ \/ \E r \in Runs : lightcurve = r.lightcurve /\ cfg = r.cfg
       \/ lightcurve = ScenarioCurve /\ cfg = ScenarioConfig
    /\ phaii7 = None
    /\ T5 = None /\ T95 = None /\ T90 = None
    /\ burst_start = None /\ burst_end = None
    /\ time_ranges = None
    /\ warnings = {}
    /\ lastOp = "init"
    /\ err = "none"
    /\ fit_params = ScenarioFitParams
    /\ FitterConstructed
    /\ NothingSaved
    /\ files = "all"
    /\ AnalysisConstructed
    /\ ExtrasIdle

\* GBMAnalysis.load_data: load_tte_data, load_cspec_data,
\* create_phaii_from_tte, load_response_files in turn, each loader raising
\* FileNotFoundError when its file is missing
LoadData ==
    /\ lastOp' = "load_data"
    /\ err' = IF files = "all" THEN "none" ELSE "FileNotFoundError"
    /\ IF files \in {"no_tte", "no_cspec"}
       THEN UNCHANGED <<cspecs, phaii7, gbm_rsps>>
       ELSE /\ cspecs' = Some(Detectors)
            /\ phaii7' = Some(lightcurve)
            /\ IF files = "no_rsp" THEN UNCHANGED gbm_rsps
               ELSE gbm_rsps' = Some(Detectors)
    /\ UNCHANGED <<lightcurve, cfg, T5, T95, T90, burst_start, burst_end,
                   time_ranges, warnings>>
    /\ UNCHANGED <<fitVars, saveVars, files, bkgds, gbm_results, summary>>
    /\ UNCHANGED extraVars

\* GBMAnalysis.calculate_t90
CalculateT90 ==
    /\ lastOp' = "calculate_t90"
    /\ IF phaii7 = None
       THEN /\ err' = "AttributeError"
            /\ UNCHANGED <<T5, T95, T90>>
       ELSE LET r == Calculate(Val(phaii7))
            IN  /\ T5' = Some(r[1])
                /\ T95' = Some(r[2])
                /\ T90' = Some(r[3])
                /\ err' = "none"
    /\ UNCHANGED <<lightcurve, cfg, phaii7, burst_start, burst_end,
                   time_ranges, warnings>>
    /\ UNCHANGED <<fitVars, saveVars, analysisVars>>
    /\ UNCHANGED extraVars

\* GBMAnalysis.detect_burst
DetectBurst ==
    /\ lastOp' = "detect_burst"
    /\ IF phaii7 = None
       THEN /\ err' = "AttributeError"
            /\ UNCHANGED <<burst_start, burst_end>>
       ELSE LET r == Detect(Val(phaii7), cfg)
            IN  IF r.raised
                THEN /\ err' = "NoBurstDetected"
                     /\ UNCHANGED <<burst_start, burst_end>>
                ELSE /\ burst_start' = Some(r.start)
                     /\ burst_end' = Some(r.end)
                     /\ err' = "none"
    /\ UNCHANGED <<lightcurve, cfg, phaii7, T5, T95, T90, time_ranges,
                   warnings>>
    /\ UNCHANGED <<fitVars, saveVars, analysisVars>>
    /\ UNCHANGED extraVars

\* GBMAnalysis.define_time_intervals
DefineTimeIntervals ==
    /\ lastOp' = "define_time_intervals"
    /\ IF burst_start = None \/ burst_end = None
       THEN /\ err' = "BurstNotDetected"
            /\ warnings' = {}
            /\ UNCHANGED time_ranges
       ELSE LET w == TimeInterval(cfg)
                start == ResolveStart(cfg.analysis_start, Val(burst_start))
                stop == ResolveStop(cfg.analysis_stop, Val(burst_end))
            IN  IF InvalidRange(start, stop)
                THEN /\ err' = "InvalidRange"
                     /\ warnings' = {}
                     /\ UNCHANGED time_ranges
                ELSE /\ warnings' = Advisories(start, stop, Val(burst_start),
                                               Val(burst_end))
                     /\ time_ranges' = Some(Segment(start, stop, w))
                     /\ err' = "none"
    /\ UNCHANGED <<lightcurve, cfg, phaii7, T5, T95, T90, burst_start,
                   burst_end>>
    /\ UNCHANGED <<fitVars, saveVars, analysisVars>>
    /\ UNCHANGED extraVars

\* GBMAnalysis.fit_backgrounds.  BackgroundFitterManager.fit_background is
\* gdt's polynomial fit over ranges built from T5 and T95: with a NaN bound
\* it may return or raise
FitBackgrounds ==
    /\ lastOp' = "fit_backgrounds"
    /\ IF T5 = None \/ T95 = None
       THEN /\ err' = "ValueError"
            /\ UNCHANGED bkgds
       ELSE \/ /\ bkgds' = Some(<<Val(T5), Val(T95)>>)
               /\ err' = "none"
            \/ /\ Val(T5).nan \/ Val(T95).nan
               /\ err' = "BackgroundFitError"
               /\ UNCHANGED bkgds
    /\ UNCHANGED <<lightcurve, cfg, phaii7, T5, T95, T90, burst_start,
                   burst_end, time_ranges, warnings>>
    /\ UNCHANGED <<fitVars, saveVars, files, cspecs, gbm_rsps, gbm_results,
                   summary>>
    /\ UNCHANGED extraVars

\* a faulty variant of RunSpectralAnalysis: the responses are not among the
\* prerequisites checked
RunSpectralAnalysisUncheckedResponses ==
    /\ pcFit = "idle"
    /\ lastOp' = "run_spectral_analysis"
    /\ err' = IF cspecs = None \/ bkgds = None \/ time_ranges = None
              THEN "ValueError" ELSE "running"
    /\ UNCHANGED <<lightcurve, cfg, phaii7, T5, T95, T90, burst_start,
                   burst_end, time_ranges, warnings>>
    /\ UNCHANGED <<fitVars, saveVars, analysisVars>>
    /\ UNCHANGED extraVars

\* GBMAnalysis.run_spectral_analysis, lines 152-163: the check of the
\* prerequisites and the call of the manager's run_spectral_analysis, whose
\* steps follow while err is "running"
RunSpectralAnalysis ==
    /\ pcFit = "idle"
    /\ lastOp' = "run_spectral_analysis"
    /\ err' = IF cspecs = None \/ bkgds = None \/ gbm_rsps = None
                    \/ time_ranges = None
              THEN "ValueError" ELSE "running"
    /\ UNCHANGED <<lightcurve, cfg, phaii7, T5, T95, T90, burst_start,
                   burst_end, time_ranges, warnings>>
    /\ UNCHANGED <<fitVars, saveVars, analysisVars>>
    /\ UNCHANGED extraVars

\* GBMAnalysis.run_spectral_analysis, lines 163-172: the manager's run has
\* returned, self.results is assigned; or it has raised
RunSpectralAnalysisReturns ==
    /\ err = "running"
    /\ pcFit \in {"done", "raised"}
    /\ IF pcFit = "done"
       THEN /\ gbm_results' = Val(results)
            /\ err' = "none"
       ELSE /\ err' = fitErr
            /\ UNCHANGED gbm_results
    /\ UNCHANGED <<lightcurve, cfg, phaii7, T5, T95, T90, burst_start,
                   burst_end, time_ranges, warnings, lastOp>>
    /\ UNCHANGED <<fitVars, saveVars, files, cspecs, gbm_rsps, bkgds, summary>>
    /\ UNCHANGED extraVars

\* GBMAnalysis.save_results
SaveAnalysisResults ==
    /\ lastOp' = "save_results"
    /\ err' = "none"
    /\ LET r == SaveResults(gbm_results, csv_file)
       IN  /\ results_arg' = Some(gbm_results)
           /\ table' = Some(r.table)
           /\ csv_file' = r.file
    /\ UNCHANGED <<lightcurve, cfg, phaii7, T5, T95, T90, burst_start,
                   burst_end, time_ranges, warnings>>
    /\ UNCHANGED <<fitVars, analysisVars>>
    /\ UNCHANGED extraVars

\* Python's truth value of an attribute holding None or a float
Truthy(o) == o # None /\ Val(o) # 0

\* GBMAnalysis.get_summary (Success_rate is Valid_fits / Num_intervals)
GetSummary ==
    /\ lastOp' = "get_summary"
    /\ err' = "none"
    /\ summary' =
        Some([T90 |-> T90,
              Burst_duration |->
                  IF Truthy(burst_start) /\ Truthy(burst_end)
                  THEN Some(Val(burst_end) - Val(burst_start)) ELSE None,
              Num_intervals |->
                  IF time_ranges # None /\ Val(time_ranges) # <<>>
                  THEN Len(Val(time_ranges)) ELSE 0,
              Valid_fits |-> Len(gbm_results)])
    /\ UNCHANGED <<lightcurve, cfg, phaii7, T5, T95, T90, burst_start,
                   burst_end, time_ranges, warnings>>
    /\ UNCHANGED <<fitVars, saveVars, files, cspecs, gbm_rsps, bkgds,
                   gbm_results>>
    /\ UNCHANGED extraVars

Next ==
    \/ LoadData
    \/ CalculateT90
    \/ DetectBurst
    \/ DefineTimeIntervals

Spec == Init /\ [][Next]_vars

-----------------------------------------------------------------------------
(* State machine of the spectral analysis *)

\* GBMAnalysis after load_data, calculate_t90, fit_backgrounds,
\* detect_burst and define_time_intervals have returned on curve under
\* configuration c
PipelineDone(curve, c) ==
    LET t == Calculate(curve)
        d == Detect(curve, c)
        start == ResolveStart(c.analysis_start, d.start)
        stop == ResolveStop(c.analysis_stop, d.end)
    IN  /\ ~d.raised
        /\ ~InvalidRange(start, stop)
        /\ lightcurve = curve
        /\ cfg = c
        /\ phaii7 = Some(curve)
        /\ T5 = Some(t[1]) /\ T95 = Some(t[2]) /\ T90 = Some(t[3])
        /\ burst_start = Some(d.start)
        /\ burst_end = Some(d.end)
        /\ time_ranges = Some(Segment(start, stop, TimeInterval(c)))
        /\ warnings = Advisories(start, stop, d.start, d.end)
        /\ lastOp = "define_time_intervals"
        /\ err = "none"
        /\ files = "all"
        /\ cspecs = Some(Detectors)
        /\ gbm_rsps = Some(Detectors)
        /\ bkgds = Some(<<t[1], t[2]>>)
        /\ gbm_results = <<>>
        /\ summary = None

InitFit ==
    /\ \E c \in FitConfigs : PipelineDone(FitCurve, c)
    /\ fit_params \in FitParamChoices
    /\ FitterConstructed
    /\ NothingSaved
    /\ ExtrasIdle

\* the manager after a call
ManagerBecomes(m) ==
    /\ model_expression' = m.model_expression
    /\ eval_indices' = m.eval_indices
    /\ model_template' = m.model_template
    /\ models' = m.models

\* run_spectral_analysis, line 208: self.initialize_model()
RunInitializeModel ==
    /\ pcFit = "idle"
    /\ LET r == InitializeModel(fit_params, Manager)
       IN  /\ ManagerBecomes(r.mgr)
           /\ pcFit' = IF r.raised THEN "raised" ELSE "precompute"
           /\ fitErr' = IF r.raised THEN "ValueError" ELSE "none"
    /\ UNCHANGED <<fit_params, rsps_interpoladas, interpolations, loop_i,
                   results, fits, lastFit>>
    /\ UNCHANGED <<pipelineVars, saveVars, analysisVars>>
    /\ UNCHANGED extraVars

\* run_spectral_analysis, lines 211-213: precompute_responses, results = []
RunPrecomputeResponses ==
    /\ pcFit = "precompute"
    /\ rsps_interpoladas' =
           Some(PrecomputeResponses(Detectors, Val(time_ranges)))
    /\ interpolations' = InterpolateCalls(Detectors, Val(time_ranges))
    /\ results' = Some(<<>>)
    /\ loop_i' = 0
    /\ pcFit' = IF Val(time_ranges) = <<>> THEN "done" ELSE "loop"
    /\ UNCHANGED <<fit_params, model_expression, eval_indices,
                   model_template, models, fits, lastFit, fitErr>>
    /\ UNCHANGED <<pipelineVars, saveVars, analysisVars>>
    /\ UNCHANGED extraVars

\* the loop body, lines 216-224, when cspecs.to_pha raises: nothing catches
\* it and run_spectral_analysis ends by raising
ExtractionRaises ==
    /\ pcFit = "loop"
    /\ pcFit' = "raised"
    /\ fitErr' = "to_pha"
    /\ UNCHANGED <<fit_params, model_expression, eval_indices,
                   model_template, models, rsps_interpoladas,
                   interpolations, loop_i, results, fits, lastFit>>
    /\ UNCHANGED <<pipelineVars, saveVars, analysisVars>>

RunExtractionRaises == ExtractionRaises /\ UNCHANGED extraVars

\* the loop body, lines 216-236, when cspecs.to_pha returns and the fitter
\* behaves as o: fit_interval and the append; after the last interval the
\* results are returned
ProcessInterval(o) ==
    /\ pcFit = "loop"
    /\ LET k == loop_i + 1
           tr == Val(time_ranges)
           f == FitInterval(fit_params, Manager, o,
                            Val(rsps_interpoladas)[k], k,
                            tr[k][1], tr[k][2])
       IN  /\ ManagerBecomes(f.mgr)
           /\ fits' = fits \o f.fitters
           /\ lastFit' = Some([interval |-> k, outcome |-> o,
                               result |-> f.result])
           /\ results' = IF f.result = None THEN results
                         ELSE Some(Append(Val(results), Val(f.result)))
           /\ loop_i' = k
           /\ pcFit' = IF k = Len(tr) THEN "done" ELSE "loop"
    /\ UNCHANGED <<fit_params, rsps_interpoladas, interpolations, fitErr>>
    /\ UNCHANGED <<pipelineVars, saveVars, analysisVars>>

RunProcessInterval ==
    /\ pcFit = "loop"
    /\ \E o \in FitOutcomes(models[Val(model_template)].value) :
        ProcessInterval(o)
    /\ UNCHANGED extraVars

NextFit ==
    \/ RunInitializeModel
    \/ RunPrecomputeResponses
    \/ RunExtractionRaises
    \/ RunProcessInterval

SpecFit == InitFit /\ [][NextFit]_vars

-----------------------------------------------------------------------------
(* State machine of save_results *)

InitSave ==
    /\ \E c \in FitConfigs :
        /\ PipelineDone(FitCurve, c)
        /\ Len(Val(time_ranges)) = MaxIntervals
    /\ fit_params = ScenarioFitParams
    /\ FitterConstructed
    /\ NothingSaved
    /\ ExtrasIdle

\* ResultsManager.save_results(results)
SaveResultsCall ==
    /\ \E rows \in ResultLists(Val(time_ranges)) :
        LET r == SaveResults(rows, csv_file)
        IN  /\ results_arg' = Some(rows)
            /\ table' = Some(r.table)
            /\ csv_file' = r.file
    /\ UNCHANGED <<pipelineVars, fitVars, analysisVars>>
    /\ UNCHANGED extraVars

NextSave == SaveResultsCall

SpecSave == InitSave /\ [][NextSave]_vars

-----------------------------------------------------------------------------
(* State machine of run_full_analysis *)

\* the curves a full run is given: a burst, a zero total, a single sample,
\* and all counts in the first bin
FullCurves ==
    {FitCurve} \cup
    {[t0 |-> 0, w |-> DetectorBinWidth, counts |-> c] :
        c \in {<<0, 0>>, <<4>>, <<4, 0>>}}

\* the windows: the detected one, a manual start one second before the
\* end of the burst, and a manual start after it (an invalid range)
FullConfigs ==
    {FitDetection,
     [FitDetection EXCEPT !.analysis_start = Some(3 * DetectorBinWidth)],
     [FitDetection EXCEPT !.analysis_start = Some(5 * DetectorBinWidth)]}

\* which input files exist
FileSets == {"all", "no_tte", "no_cspec", "no_rsp"}

\* spectral_fitting: the scenario's, and with '[]', no expression, no
\* eval_indices
FullFitParams ==
    {ScenarioFitParams,
     [ScenarioFitParams EXCEPT !.model_expression = Some(<<"[", "]">>)],
     [ScenarioFitParams EXCEPT !.model_expression = None],
     [ScenarioFitParams EXCEPT !.eval_indices = None]}

\* GBMAnalysis.__init__
InitFull ==
    /\ lightcurve \in FullCurves
    /\ cfg \in FullConfigs
    /\ files \in FileSets
    /\ fit_params \in FullFitParams
    /\ phaii7 = None
    /\ T5 = None /\ T95 = None /\ T90 = None
    /\ burst_start = None /\ burst_end = None
    /\ time_ranges = None
    /\ warnings = {}
    /\ lastOp = "init"
    /\ err = "none"
    /\ AnalysisConstructed
    /\ FitterConstructed
    /\ NothingSaved
    /\ ExtrasIdle

\* run_full_analysis: the step op has returned, the next line of the try
\* block is reached
Returned(op) == lastOp = op /\ err = "none"

\* run_full_analysis: the seven steps in the order of the try block; a step
\* that raises leaves err set, the except clause re-raises and no step
\* follows
NextFull ==
    \/ Returned("init") /\ LoadData
    \/ Returned("load_data") /\ CalculateT90
    \/ Returned("calculate_t90") /\ FitBackgrounds
    \/ Returned("fit_backgrounds") /\ DetectBurst
    \/ Returned("detect_burst") /\ DefineTimeIntervals
    \/ Returned("define_time_intervals") /\ RunSpectralAnalysis
    \/ err = "running" /\ RunInitializeModel
    \/ err = "running" /\ RunPrecomputeResponses
    \/ err = "running" /\ RunExtractionRaises
    \/ err = "running" /\ RunProcessInterval
    \/ RunSpectralAnalysisReturns
    \/ Returned("run_spectral_analysis") /\ SaveAnalysisResults

SpecFull == InitFull /\ [][NextFull]_vars

-----------------------------------------------------------------------------
(* State machine of a repeated analysis: run_spectral_analysis and
   save_results, twice on the same inputs with a fitter that returns the
   same outputs *)

\* the seconds a fit can take: under, at and over the default limit
TwiceElapsed ==
    {DefaultMaxFitTime - 1, DefaultMaxFitTime, DefaultMaxFitTime + 1}

\* what the fitter can do in the first run
TwiceOutcomes ==
    {o \in RaisingOutcomes : o.fit = "raises"}
    \cup
    {Returns(e, s, Some(<<"1.0", "0.0", "0.0", "1.0">>),
             [j \in 1..Len(GoodFit) |-> GoodFit[j].value],
             [j \in 1..Len(GoodFit) |-> GoodFit[j].err]) :
        e \in TwiceElapsed, s \in {"12.5", "inf"}}

\* recorded for an interval whose cspecs.to_pha raised
ToPhaRaised ==
    [ctor |-> "not called", fit |-> "not called", elapsed |-> 0,
     statistic |-> "nan", covariance |-> None, parameters |-> <<>>,
     errors |-> <<>>]

\* the durations a fitter behaving as p again can take
ElapsedAgain(p) == IF p.fit = "returns" THEN TwiceElapsed ELSE {p.elapsed}

InitTwice ==
    /\ \E c \in FullConfigs : PipelineDone(FitCurve, c)
    /\ fit_params = ScenarioFitParams
    /\ FitterConstructed
    /\ NothingSaved
    /\ ExtrasIdle

FirstRunExtractionRaises ==
    /\ run_no = 1
    /\ ExtractionRaises
    /\ outcomes1' = Append(outcomes1, ToPhaRaised)
    /\ UNCHANGED <<run_no, outcomes2, table1>>
    /\ UNCHANGED blockVars

FirstRunInterval ==
    /\ run_no = 1
    /\ \E o \in TwiceOutcomes :
        /\ ProcessInterval(o)
        /\ outcomes1' = Append(outcomes1, o)
    /\ UNCHANGED <<run_no, outcomes2, table1>>
    /\ UNCHANGED blockVars

\* the second run: the same inputs, so to_pha raises where it did
SecondRunExtractionRaises ==
    /\ run_no = 2
    /\ pcFit = "loop"
    /\ outcomes1[loop_i + 1] = ToPhaRaised
    /\ ExtractionRaises
    /\ outcomes2' = Append(outcomes2, ToPhaRaised)
    /\ UNCHANGED <<run_no, outcomes1, table1>>
    /\ UNCHANGED blockVars

\* the second run: the fitter returns what it returned, after a time of
\* its own
SecondRunInterval ==
    /\ run_no = 2
    /\ pcFit = "loop"
    /\ outcomes1[loop_i + 1] # ToPhaRaised
    /\ \E e \in ElapsedAgain(outcomes1[loop_i + 1]) :
        LET o == [outcomes1[loop_i + 1] EXCEPT !.elapsed = e]
        IN  /\ ProcessInterval(o)
            /\ outcomes2' = Append(outcomes2, o)
    /\ UNCHANGED <<run_no, outcomes1, table1>>
    /\ UNCHANGED blockVars

\* the end of a run: save_results(results) when run_spectral_analysis
\* returned, nothing when it raised
Aggregate ==
    IF pcFit = "done"
    THEN LET r == SaveResults(Val(results), csv_file)
         IN  /\ results_arg' = Some(Val(results))
             /\ table' = Some(r.table)
             /\ csv_file' = r.file
    ELSE /\ results_arg' = None
         /\ table' = None
         /\ UNCHANGED csv_file

\* the first run is over; the second starts with a manager of its own
RepeatAnalysis ==
    /\ run_no = 1
    /\ pcFit \in {"done", "raised"}
    /\ Aggregate
    /\ table1' = table'
    /\ run_no' = 2
    /\ model_expression' = None
    /\ eval_indices' = None
    /\ model_template' = None
    /\ models' = <<>>
    /\ rsps_interpoladas' = None
    /\ interpolations' = <<>>
    /\ loop_i' = 0
    /\ results' = None
    /\ fits' = <<>>
    /\ lastFit' = None
    /\ pcFit' = "idle"
    /\ fitErr' = "none"
    /\ UNCHANGED <<fit_params, outcomes1, outcomes2>>
    /\ UNCHANGED <<pipelineVars, analysisVars>>
    /\ UNCHANGED blockVars

\* the second run is over
FinishRepeat ==
    /\ run_no = 2
    /\ pcFit \in {"done", "raised"}
    /\ Aggregate
    /\ run_no' = 3
    /\ UNCHANGED <<outcomes1, outcomes2, table1>>
    /\ UNCHANGED <<pipelineVars, fitVars, analysisVars>>
    /\ UNCHANGED blockVars

NextTwice ==
    \/ RunInitializeModel
    \/ RunPrecomputeResponses
    \/ FirstRunExtractionRaises
    \/ FirstRunInterval
    \/ RepeatAnalysis
    \/ SecondRunExtractionRaises
    \/ SecondRunInterval
    \/ FinishRepeat

SpecTwice == InitTwice /\ [][NextTwice]_vars

-----------------------------------------------------------------------------
(* State machine of GBMAnalysis with its methods called in any order *)

\* the curves: a burst in the last bins, a burst in the first bin (which
\* starts at time 0), no burst
StepsCurves ==
    {FitCurve} \cup
    {[t0 |-> 0, w |-> DetectorBinWidth, counts |-> c] :
        c \in {<<4, 0>>, <<0, 0>>}}

\* the windows: the detected one, and both bounds manual
StepsConfigs ==
    {FitDetection,
     [FitDetection EXCEPT !.analysis_start = Some(3 * DetectorBinWidth),
                          !.analysis_stop = Some(4 * DetectorBinWidth)]}

\* what the fitter can do in an interval: an acceptable fit, or raise
StepsOutcomes ==
    {o \in RaisingOutcomes : o.fit = "raises"}
    \cup
    {Returns(DefaultMaxFitTime, "12.5", Some(<<"1.0", "0.0", "0.0", "1.0">>),
             [j \in 1..Len(GoodFit) |-> GoodFit[j].value],
             [j \in 1..Len(GoodFit) |-> GoodFit[j].err])}

InitSteps ==
    /\ lightcurve \in StepsCurves
    /\ cfg \in StepsConfigs
    /\ files \in FileSets
    /\ fit_params = ScenarioFitParams
    /\ phaii7 = None
    /\ T5 = None /\ T95 = None /\ T90 = None
    /\ burst_start = None /\ burst_end = None
    /\ time_ranges = None
    /\ warnings = {}
    /\ lastOp = "init"
    /\ err = "none"
    /\ AnalysisConstructed
    /\ FitterConstructed
    /\ NothingSaved
    /\ ExtrasIdle

\* no call is under way: the caller may call any method
Callable == err # "running"

StepsProcessInterval ==
    /\ \E o \in StepsOutcomes : ProcessInterval(o)
    /\ UNCHANGED extraVars

NextSteps ==
    \/ Callable /\ LoadData
    \/ Callable /\ CalculateT90
    \/ Callable /\ FitBackgrounds
    \/ Callable /\ DetectBurst
    \/ Callable /\ DefineTimeIntervals
    \/ Callable /\ RunSpectralAnalysis
    \/ err = "running" /\ RunInitializeModel
    \/ err = "running" /\ RunPrecomputeResponses
    \/ err = "running" /\ RunExtractionRaises
    \/ err = "running" /\ StepsProcessInterval
    \/ RunSpectralAnalysisReturns
    \/ Callable /\ SaveAnalysisResults
    \/ Callable /\ GetSummary

SpecSteps == InitSteps /\ [][NextSteps]_vars

-----------------------------------------------------------------------------
(* State machine of SpectralFitterManager with its methods called directly *)

\* the calls made on one manager
MaxCalls == 3

\* spectral_fitting: the scenario's, and with eval_indices absent or
\* empty, model_expression absent or naming no model
ManagerFitParams ==
    {ScenarioFitParams,
     [ScenarioFitParams EXCEPT !.eval_indices = None],
     [ScenarioFitParams EXCEPT !.eval_indices = Some(<<>>)],
     [ScenarioFitParams EXCEPT !.model_expression = None],
     [ScenarioFitParams EXCEPT !.model_expression = Some(<<"Foo", "(", ")">>)]}

InitManager ==
    /\ \E c \in FullConfigs : PipelineDone(FitCurve, c)
    /\ fit_params \in ManagerFitParams
    /\ FitterConstructed
    /\ NothingSaved
    /\ ExtrasIdle

\* initialize_model()
CallInitializeModel ==
    /\ loop_i < MaxCalls
    /\ LET r == InitializeModel(fit_params, Manager)
       IN  /\ ManagerBecomes(r.mgr)
           /\ fitErr' = IF r.raised THEN "ValueError" ELSE "none"
    /\ pcFit' = "initialize_model"
    /\ loop_i' = loop_i + 1
    /\ UNCHANGED <<fit_params, rsps_interpoladas, interpolations, results,
                   fits, lastFit>>
    /\ UNCHANGED <<pipelineVars, saveVars, analysisVars, extraVars>>

\* create_model_for_interval()
CallCreateModelForInterval ==
    /\ loop_i < MaxCalls
    /\ LET c == CreateModelForInterval(fit_params, Manager)
       IN  /\ ManagerBecomes(c.mgr)
           /\ fitErr' = IF c.raised THEN "ValueError" ELSE "none"
    /\ pcFit' = "create_model_for_interval"
    /\ loop_i' = loop_i + 1
    /\ UNCHANGED <<fit_params, rsps_interpoladas, interpolations, results,
                   fits, lastFit>>
    /\ UNCHANGED <<pipelineVars, saveVars, analysisVars, extraVars>>

\* fit_interval(phas, bkgds, rsps_interp, t0, t1) for one of the intervals
CallFitInterval ==
    /\ loop_i < MaxCalls
    /\ \E k \in 1..Len(Val(time_ranges)), o \in StepsOutcomes :
        LET tr == Val(time_ranges)
            f == FitInterval(fit_params, Manager, o,
                             PrecomputeResponses(Detectors, tr)[k], k,
                             tr[k][1], tr[k][2])
        IN  /\ ManagerBecomes(f.mgr)
            /\ fits' = fits \o f.fitters
            /\ lastFit' = Some([interval |-> k, outcome |-> o,
                                result |-> f.result])
    /\ fitErr' = "none"
    /\ pcFit' = "fit_interval"
    /\ loop_i' = loop_i + 1
    /\ UNCHANGED <<fit_params, rsps_interpoladas, interpolations, results>>
    /\ UNCHANGED <<pipelineVars, saveVars, analysisVars, extraVars>>

NextManager ==
    \/ CallInitializeModel
    \/ CallCreateModelForInterval
    \/ CallFitInterval

SpecManager == InitManager /\ [][NextManager]_vars

-----------------------------------------------------------------------------
(* BlockRunner *)

\* the objects of one objects.json
MaxObjects == 2

\* A dict is an object on the heap h (a sequence of dicts, a reference is
\* an index): it maps its keys to items, an item being a reference to
\* another dict or a leaf value (a string, written as its tokens).
Leaf(tokens) == [ref |-> 0, val |-> tokens]

Ref(i) == [ref |-> i, val |-> <<>>]

IsDict(item) == item.ref # 0

\* Python's None as a value of analysis_config
NoneLeaf == Leaf(<<"None">>)

EmptyDict == [k \in {} |-> Leaf(<<>>)]

\* d[k] = item
SetItem(h, d, k, item) == [h EXCEPT ![d] = (k :> item) @@ @]

\* F applied to the value of x, computed once
Bind(x, F(_)) == CHOOSE y \in {F(v) : v \in {x}} : TRUE

\* a faulty variant of DeepCopy: copy.copy, the nested dicts are shared
ShallowCopy(h, r) == [heap |-> Append(h, h[r]), at |-> Len(h) + 1]

RECURSIVE DeepCopy(_, _)

RECURSIVE CopyItems(_, _, _, _)

\* deepcopy, item by item: a leaf is kept, a nested dict is copied in turn
CopyItems(h, src, dst, keys) ==
    IF keys = {} THEN h
    ELSE LET k == CHOOSE x \in keys : TRUE
         IN  IF IsDict(h[src][k])
             THEN Bind(DeepCopy(h, h[src][k].ref),
                       LAMBDA c :
                           Bind(SetItem(c.heap, dst, k, Ref(c.at)),
                                LAMBDA g :
                                    CopyItems(g, src, dst, keys \ {k})))
             ELSE Bind(SetItem(h, dst, k, h[src][k]),
                       LAMBDA g : CopyItems(g, src, dst, keys \ {k}))

\* copy.deepcopy(d) for the dict at r: the heap with the copy, and where
\* the copy is
DeepCopy(h, r) ==
    [heap |-> Bind(Append(h, EmptyDict),
                   LAMBDA g : CopyItems(g, r, Len(h) + 1, DOMAIN h[r])),
     at |-> Len(h) + 1]

RECURSIVE MergeDicts(_, _, _)

RECURSIVE MergeItems(_, _, _, _)

\* merge_dicts, the loop over d2.items()
MergeItems(h, result, d2, keys) ==
    IF keys = {} THEN h
    ELSE LET k == CHOOSE x \in keys : TRUE
         IN  IF /\ k \in DOMAIN h[result]
                /\ IsDict(h[result][k])
                /\ IsDict(h[d2][k])
             THEN Bind(MergeDicts(h, h[result][k].ref, h[d2][k].ref),
                       LAMBDA m :
                           Bind(SetItem(m.heap, result, k, Ref(m.at)),
                                LAMBDA g :
                                    MergeItems(g, result, d2, keys \ {k})))
             ELSE Bind(SetItem(h, result, k, h[d2][k]),
                       LAMBDA g : MergeItems(g, result, d2, keys \ {k}))

\* BlockRunner.merge_dicts(d1, d2)
MergeDicts(h, d1, d2) ==
    Bind(DeepCopy(h, d1),
         LAMBDA c : [heap |-> MergeItems(c.heap, c.at, d2, DOMAIN h[d2]),
                     at |-> c.at])

\* d.get(k, {}) for a section k of d
GetSection(h, d, k) ==
    IF k \in DOMAIN h[d] THEN [heap |-> h, at |-> h[d][k].ref]
    ELSE [heap |-> Append(h, EmptyDict), at |-> Len(h) + 1]

RECURSIVE UpdateNotNone(_, _, _, _)

\* run_object, lines 114-117: every value of analysis_config but None is
\* written into config['spectral_fitting']
UpdateNotNone(h, d, src, keys) ==
    IF keys = {} THEN h
    ELSE LET k == CHOOSE x \in keys : TRUE
         IN  Bind(IF h[src][k] = NoneLeaf THEN h
                  ELSE SetItem(h, d, k, h[src][k]),
                  LAMBDA g : UpdateNotNone(g, d, src, keys \ {k}))

\* config['spectral_fitting'] = merge_dicts(config.get('spectral_fitting',
\* {}), overrides), and the same for 'plotting'
MergeSection(h, config, section, overrides) ==
    Bind(GetSection(h, config, section),
         LAMBDA g :
             Bind(MergeDicts(g.heap, g.at, overrides),
                  LAMBDA m : SetItem(m.heap, config, section, Ref(m.at))))

RECURSIVE Flatten(_, _)

\* yaml.dump(d): every leaf with the keys that lead to it
Flatten(h, r) ==
    UNION {IF IsDict(h[r][k])
           THEN {<<<<k>> \o q[1], q[2]>> : q \in Flatten(h, h[r][k].ref)}
           ELSE {<<<<k>>, h[r][k].val>>} : k \in DOMAIN h[r]}

\* config.yaml as ConfigManager loads it (dicts 1 to 6, the root first),
\* and the model_config, analysis_config and plotting_config an object of
\* objects.json can carry (dicts 7 to 10)
LoadedDicts ==
    << [data_paths |-> Ref(2), spectral_fitting |-> Ref(3),
        plotting |-> Ref(5), output |-> Ref(6)],
       [tte |-> Leaf(<<"base.tte">>)],
       [model_expression |-> Leaf(<<"PowerLaw()">>),
        time_interval |-> Leaf(<<"1.0">>), fit_options |-> Ref(4)],
       [method |-> Leaf(<<"TNC">>), maxiter |-> Leaf(<<"100">>)],
       [dpi |-> Leaf(<<"100">>)],
       [file_name |-> Leaf(<<"results/base_fits.csv">>)],
       [model_expression |-> Leaf(<<"Band()">>), fit_options |-> Ref(8)],
       [method |-> Leaf(<<"Powell">>)],
       [time_interval |-> Leaf(<<"2.0">>), analysis_start |-> NoneLeaf,
        analysis_stop |-> Leaf(<<"9.0">>)],
       [dpi |-> Leaf(<<"300">>)] >>

\* BlockRunner.base_config.config
BaseConfig == 1

ObjectNames == <<"grb_a", "grb_b", "grb_c", "grb_d">>

\* what an object of objects.json can be: with or without 'description',
\* with the overrides it carries (0: the key is absent), its data files
\* present or not, its analysis returning or raising
ObjectKinds ==
    {[name |-> ObjectNames[1], has_description |-> d, fate |-> f,
      model_config |-> o[1], analysis_config |-> o[2],
      plotting_config |-> o[3]] :
        d \in BOOLEAN, f \in {"missing files", "returns", "raises"},
        o \in {<<0, 0, 0>>, <<0, 9, 0>>, <<7, 9, 10>>}}

\* objects.json: up to MaxObjects objects, named in turn
ObjectLists ==
    UNION {{[i \in 1..n |-> [kinds[i] EXCEPT !.name = ObjectNames[i]]] :
                kinds \in [1..n -> ObjectKinds]} : n \in 0..MaxObjects}

\* run_all_objects(filter_names): no filter, an empty one, one object, a
\* name no object has
FilterChoices ==
    {None, Some({}), Some({ObjectNames[2]}), Some({"grb_x"})}

\* run_object, lines 101-104: the copy of the base configuration with the
\* data paths of the object; it is the dict made first, at Len(h) + 1
CopyWithDataPaths(h, obj) ==
    Bind(DeepCopy(h, BaseConfig),
         LAMBDA c :
             Bind(Append(c.heap,
                         [tte |-> Leaf(<<"data", "/", obj.name, ".tte">>)]),
                  LAMBDA g : SetItem(g, c.at, "data_paths", Ref(Len(g)))))

\* run_object, lines 107-111
WithModelConfig(h, config, obj) ==
    IF obj.model_config = 0 THEN h
    ELSE MergeSection(h, config, "spectral_fitting", obj.model_config)

\* run_object, lines 114-117
WithAnalysisConfig(h, config, obj) ==
    IF obj.analysis_config = 0 THEN h
    ELSE UpdateNotNone(h, h[config]["spectral_fitting"].ref,
                       obj.analysis_config, DOMAIN h[obj.analysis_config])

\* run_object, lines 120-124
WithPlottingConfig(h, config, obj) ==
    IF obj.plotting_config = 0 THEN h
    ELSE MergeSection(h, config, "plotting", obj.plotting_config)

\* run_object, lines 127-133
WithOutputNames(h, config, obj) ==
    Bind(SetItem(h, h[config]["output"].ref, "file_name",
                 Leaf(<<"results", "/", obj.name, "_fits.csv">>)),
         LAMBDA g :
             IF "plotting" \in DOMAIN g[config]
             THEN SetItem(g, g[config]["plotting"].ref, "plots_dir",
                          Leaf(<<"results", "/plots/", obj.name>>))
             ELSE g)

\* run_object, lines 101-133: the heap once the configuration of the
\* object is complete
Customize(h, obj) ==
    Bind(CopyWithDataPaths(h, obj),
         LAMBDA h1 :
    Bind(WithModelConfig(h1, Len(h) + 1, obj),
         LAMBDA h2 :
    Bind(WithAnalysisConfig(h2, Len(h) + 1, obj),
         LAMBDA h3 :
    Bind(WithPlottingConfig(h3, Len(h) + 1, obj),
         LAMBDA h4 : WithOutputNames(h4, Len(h) + 1, obj)))))

\* run_object, lines 139-180, on the heap g with the configuration at
\* config: the file written, the analysis, what is returned
Analyse(g, config, obj) ==
    [raised |-> FALSE,
     result |-> IF obj.fate = "raises" THEN None
                ELSE Some([objeto |-> obj.name,
                           archivo_salida |->
                               g[g[config]["output"].ref]["file_name"].val]),
     yaml |-> Some(Flatten(g, config)),
     heap |-> g]

\* run_object(obj) on heap h: whether it raised, what it returned, the
\* configuration it wrote to temp_<name>.yaml (None: nothing written) and
\* the heap it leaves
RunObject(h, obj) ==
    IF ~obj.has_description
    THEN [raised |-> TRUE, result |-> None, yaml |-> None, heap |-> h]
    ELSE IF obj.fate = "missing files"
    THEN [raised |-> FALSE, result |-> None, yaml |-> None, heap |-> h]
    ELSE Bind(Customize(h, obj), LAMBDA g : Analyse(g, Len(h) + 1, obj))

\* BlockRunner.__init__
InitBlock ==
    /\ PipelineDone(FitCurve, FitDetection)
    /\ fit_params = ScenarioFitParams
    /\ FitterConstructed
    /\ NothingSaved
    /\ NotRepeated
    /\ dicts = LoadedDicts
    /\ objects \in ObjectLists
    /\ filter_names \in FilterChoices
    /\ selected = <<>>
    /\ obj_i = 0
    /\ exitosos = 0
    /\ fallidos = 0
    /\ block_results = <<>>
    /\ temp_files = {}
    /\ attempts = <<>>
    /\ yamls = <<>>
    /\ pcBlock = "start"

RECURSIVE SelectNamed(_, _)

\* [obj for obj in objs if obj['name'] in names]
SelectNamed(objs, names) ==
    IF objs = <<>> THEN <<>>
    ELSE (IF Head(objs).name \in names THEN <<Head(objs)>> ELSE <<>>)
            \o SelectNamed(Tail(objs), names)

\* run_all_objects, lines 184-200: the filter; with a filter that selects
\* nothing it returns []
StartBlock ==
    /\ pcBlock = "start"
    /\ LET chosen == IF filter_names = None \/ Val(filter_names) = {}
                     THEN objects
                     ELSE SelectNamed(objects, Val(filter_names))
       IN  /\ selected' = chosen
           /\ pcBlock' = IF chosen = <<>> THEN "done" ELSE "loop"
    /\ UNCHANGED <<dicts, objects, filter_names, obj_i, exitosos, fallidos,
                   block_results, temp_files, attempts, yamls>>
    /\ UNCHANGED <<pipelineVars, fitVars, saveVars, analysisVars, twiceVars>>

\* run_all_objects, lines 202-211: one turn of the loop, run_object and
\* the count; an exception of run_object ends run_all_objects.  The dicts
\* run_object made are unreachable once it is over: only the loaded ones
\* stay alive.  The temp file is removed in the finally clause.
RunNextObject ==
    /\ pcBlock = "loop"
    /\ \E obj \in {selected[obj_i + 1]} :
       \E r \in {RunObject(dicts, obj)} :
           /\ attempts' = Append(attempts, obj.name)
           /\ dicts' = SubSeq(r.heap, 1, Len(dicts))
           /\ yamls' = IF r.yaml = None THEN yamls
                       ELSE Append(yamls, [objeto |-> obj.name,
                                           config |-> Val(r.yaml)])
           /\ temp_files' = IF r.yaml = None THEN temp_files
                            ELSE (temp_files \cup {obj.name}) \ {obj.name}
           /\ IF r.raised
              THEN /\ pcBlock' = "raised"
                   /\ UNCHANGED <<obj_i, exitosos, fallidos, block_results>>
              ELSE /\ obj_i' = obj_i + 1
                   /\ pcBlock' = IF obj_i + 1 = Len(selected) THEN "done"
                                 ELSE "loop"
                   /\ IF r.result = None
                      THEN /\ fallidos' = fallidos + 1
                           /\ UNCHANGED <<exitosos, block_results>>
                      ELSE /\ exitosos' = exitosos + 1
                           /\ block_results' =
                                  Append(block_results, Val(r.result))
                           /\ UNCHANGED fallidos
    /\ UNCHANGED <<objects, filter_names, selected>>
    /\ UNCHANGED <<pipelineVars, fitVars, saveVars, analysisVars, twiceVars>>

NextBlock ==
    \/ StartBlock
    \/ RunNextObject

SpecBlock == InitBlock /\ [][NextBlock]_vars

-----------------------------------------------------------------------------
(* Properties *)

\* the curve the run analyses and its summed counts
Curve == lightcurve

CurveCounts == lightcurve.counts

Detected == burst_start # None /\ burst_end # None

\* the analysis window define_time_intervals is to cut: each bound the
\* manual one if configured, else the detected one
WindowStart ==
    IF cfg.analysis_start = None THEN burst_start[1] ELSE cfg.analysis_start[1]

WindowStop ==
    IF cfg.analysis_stop = None THEN burst_end[1] ELSE cfg.analysis_stop[1]

BinWidth == IF cfg.time_interval = None THEN 1000 ELSE cfg.time_interval[1]

Defined == lastOp = "define_time_intervals" /\ err = "none"

C3_InvalidRangeRaises ==
    [][(lastOp' = "define_time_intervals" /\ Detected
            /\ WindowStart >= WindowStop)
        => (err' = "InvalidRange" /\ time_ranges' = time_ranges)]_vars

\* C3 witness: define_time_intervals has raised on a window with
\* start = stop.
C3_Witness ==
    /\ lastOp = "define_time_intervals"
    /\ err = "InvalidRange"
    /\ Detected
    /\ WindowStart = WindowStop

\* C4: a configured analysis_start / analysis_stop takes precedence over the
\* detected bound, each bound on its own, and a manual range reaching
\* outside the detected burst only produces a warning: the intervals are
\* those of the manual range and nothing is raised.
C4_ManualWindowWins ==
    (lastOp = "define_time_intervals" /\ Detected /\ WindowStart < WindowStop)
        => LET tr == time_ranges[1]
               n == Len(tr)
           IN  /\ err = "none"
               /\ n = (WindowStop - WindowStart) \div BinWidth
               /\ n > 0 => tr[1][1] = WindowStart
               /\ \A i \in 1..n : tr[i][2] <= WindowStop
               /\ ("start_before_burst" \in warnings)
                    <=> (WindowStart < burst_start[1])
               /\ ("stop_after_burst" \in warnings)
                    <=> (WindowStop > burst_end[1])

\* C4 witness: a manual start before the detected burst with the detected
\* end, intervals produced from the manual start, a warning and no error.
C4_Witness ==
    /\ Defined
    /\ cfg.analysis_start # None
    /\ cfg.analysis_stop = None
    /\ cfg.analysis_start[1] < burst_start[1]
    /\ Len(time_ranges[1]) > 0
    /\ time_ranges[1][1][1] = cfg.analysis_start[1]
    /\ warnings = {"start_before_burst"}

\* sample x strictly exceeds percentile(counts, p) + sigma * std(counts
\* strictly below the median); no number exceeds a NaN threshold
StrictlyAboveThreshold(x) ==
    LET th == Threshold(CurveCounts, cfg.percentile_for_bkg,
                        cfg.sigma_threshold)
        d == 100 * x - th.bkg100
    IN  /\ ~th.nan
        /\ d > 0
        /\ d * d * th.m * th.m > 10000 * th.sigma * th.sigma * th.v

DetectCalled == lastOp = "detect_burst" /\ phaii7 # None

\* C5: detect raises the no-burst error if and only if no sample's count
\* strictly exceeds the threshold; otherwise it returns an interval.
C5_NoBurstIffNoneAbove ==
    DetectCalled =>
        /\ (err = "NoBurstDetected")
            <=> ~(\E i \in 1..Len(CurveCounts) :
                    StrictlyAboveThreshold(CurveCounts[i]))
        /\ err # "NoBurstDetected" => (err = "none" /\ Detected)

\* C5 witness: detect raised under a threshold with a positive noise
\* deviation, above the background level.
C5_Witness ==
    /\ DetectCalled
    /\ err = "NoBurstDetected"
    /\ LET th == Threshold(CurveCounts, cfg.percentile_for_bkg,
                           cfg.sigma_threshold)
       IN  ~th.nan /\ th.v > 0
                /\ \E i \in 1..Len(CurveCounts) :
                        100 * CurveCounts[i] > th.bkg100

\* the samples detect counts as in-burst
InBurst ==
    Mask(CurveCounts, Threshold(CurveCounts, cfg.percentile_for_bkg,
                                cfg.sigma_threshold))

\* C6: when detect succeeds on a curve of bin width w, burst_start is the
\* time of the first in-burst sample and burst_end the time of the last
\* in-burst sample plus w, for every w; hence burst_start < burst_end.
C6_BurstBoundsAtSampleTimes ==
    (DetectCalled /\ err = "none") =>
        /\ burst_start[1] = SampleTime(Curve, SetMin(InBurst) - 1)
        /\ burst_end[1] = SampleTime(Curve, SetMax(InBurst) - 1) + Curve.w
        /\ burst_start[1] < burst_end[1]

\* C7: when no sample lies strictly below the median, detect uses a noise
\* deviation of 0 and the background level as threshold, so that it
\* succeeds as soon as a sample's count is above the background level, with
\* the in-burst samples those above that level.
C7_FlatCurveThresholdIsBackground ==
    LET bkg100 == Percentile100(CurveCounts, cfg.percentile_for_bkg)
        above == {i \in 1..Len(CurveCounts) : 100 * CurveCounts[i] > bkg100}
    IN  (DetectCalled /\ NoiseSubset(CurveCounts) = <<>> /\ above # {})
            => /\ err = "none"
               /\ burst_start = Some(DetectTime(Curve, SetMin(above) - 1))

\* C8: on the scenario curve with percentile_for_bkg = 50 and
\* sigma_threshold = 5, detect returns (80.0, 121.0).
C8_ScenarioBurst ==
    (DetectCalled /\ lightcurve = ScenarioCurve /\ cfg = ScenarioConfig)
        => /\ err = "none"
           /\ burst_start = Some(80000)
           /\ burst_end = Some(121000)

CalculateCalled == lastOp = "calculate_t90" /\ phaii7 # None

\* C9: for a curve of at least 2 samples with non-negative counts and a
\* positive total, calculate returns T5 <= T95, T90 = T95 - T5 >= 0, and T5
\* and T95 between the first and the last sample time.
C9_T90Ordered ==
    (CalculateCalled /\ Len(CurveCounts) >= 2 /\ SumSeq(CurveCounts) > 0)
        => /\ err = "none"
           /\ FLe(T5[1], T95[1])
           /\ FEq(T90[1], FSub(T95[1], T5[1]))
           /\ FLe(Frac(0, 0, 1), T90[1])
           /\ FLe(Frac(TimeCentroid(Curve, 0), 0, 1), T5[1])
           /\ FLe(T95[1],
                  Frac(TimeCentroid(Curve, Len(CurveCounts) - 1), 0, 1))

\* The ordering and the bounds of C9 on the curves whose cumulative sum is
\* not constant (some sample after the first has a positive count).
T90OrderedWhenSpread ==
    (CalculateCalled /\ \E i \in 2..Len(CurveCounts) : CurveCounts[i] > 0)
        => /\ err = "none"
           /\ FLe(T5[1], T95[1])
           /\ FEq(T90[1], FSub(T95[1], T5[1]))
           /\ FLe(Frac(0, 0, 1), T90[1])
           /\ FLe(Frac(TimeCentroid(Curve, 0), 0, 1), T5[1])
           /\ FLe(T95[1],
                  Frac(TimeCentroid(Curve, Len(CurveCounts) - 1), 0, 1))

\* C10: calculate fails with a degenerate-signal error, and returns no
\* triple, whenever the total counts are zero or the curve has fewer than 2
\* samples.
C10_DegenerateSignalRaises ==
    (CalculateCalled
        /\ (SumSeq(CurveCounts) = 0 \/ Len(CurveCounts) < 2))
        => err # "none"

\* the scenario curve was handed to calculate
ScenarioCalculated == CalculateCalled /\ lightcurve = ScenarioCurve

\* C11 as stated: on the scenario curve calculate returns T5 <= 80 s and
\* T95 >= 120 s with T90 between 38 s and 42 s.
C11_ScenarioT90AsStated ==
    ScenarioCalculated
        => /\ FLe(T5[1], Frac(80000, 0, 1))
           /\ FLe(Frac(120000, 0, 1), T95[1])
           /\ FLe(Frac(38000, 0, 1), T90[1])
           /\ FLe(T90[1], Frac(42000, 0, 1))

\* C11: on the scenario curve calculate returns T5 = 39.15 s and
\* T95 = 160.85 s, which bracket bins 80-120 (T5 <= 80 s, T95 >= 120 s),
\* and T90 = 121.7 s: the background counts are part of the cumulative sum,
\* so the 5% and 95% points fall in the background on either side.
C11_ScenarioT90 ==
    ScenarioCalculated
        => /\ err = "none"
           /\ T5[1] = Frac(39150, 0, 1)
           /\ T95[1] = Frac(160850, 0, 1)
           /\ T90[1] = Frac(121700, 0, 1)
           /\ FLe(T5[1], Frac(80000, 0, 1))
           /\ FLe(Frac(120000, 0, 1), T95[1])

\* C11 witness: calculate has returned on the scenario curve.
C11_Witness == ScenarioCalculated /\ err = "none" /\ T90 # None

-----------------------------------------------------------------------------
(* Properties of the spectral analysis *)

\* the last fit_interval call: its interval, what the fitter did, and
\* whether it returned a result
FitCalled == lastFit # None

LastInterval == time_ranges[1][lastFit[1].interval]

Outcome == lastFit[1].outcome

Accepted == lastFit[1].result # None

\* the configured threshold num/den, 0.2 when absent
Thr ==
    IF fit_params.relative_error_threshold = None THEN <<1, 5>>
    ELSE fit_params.relative_error_threshold[1]

Magnitude(x) == IF x < 0 THEN 0 - x ELSE x

\* twice the magnitude of parameter j (from 0) of the last fit, and the sum
\* of the magnitudes of its two errors: their ratio is the mean relative
\* error
TwiceParam(j) == 2 * Magnitude(Outcome.parameters[j + 1])

ErrSum(j) ==
    Magnitude(Outcome.errors[j + 1][1]) + Magnitude(Outcome.errors[j + 1][2])

\* the mean relative error of parameter j is below / equal to the
\* threshold (a parameter of value 0 has its magnitude floored at 1e-10:
\* its relative error is 0 or beyond every threshold)
BelowThreshold(j) ==
    IF TwiceParam(j) = 0 THEN ErrSum(j) = 0
    ELSE ErrSum(j) * Thr[2] < TwiceParam(j) * Thr[1]

AtThreshold(j) ==
    TwiceParam(j) # 0 /\ ErrSum(j) * Thr[2] = TwiceParam(j) * Thr[1]

EvalSet == {eval_indices[1][j] : j \in 1..Len(eval_indices[1])}

FitterRaised == Outcome.ctor = "raises" \/ Outcome.fit = "raises"

StatisticFinite == Outcome.statistic \notin {"inf", "nan"}

CovarianceValid ==
    /\ Outcome.covariance # None
    /\ \A j \in 1..Len(Outcome.covariance[1]) :
        Outcome.covariance[1][j] # "nan"

ErrorRowsMatch == Len(Outcome.errors) = Len(Outcome.parameters)

\* every check of fit_interval before the relative-error gate passed
GateReached ==
    /\ FitCalled
    /\ ~FitterRaised
    /\ Outcome.elapsed <= 10
    /\ StatisticFinite
    /\ CovarianceValid
    /\ ErrorRowsMatch
    /\ \A j \in EvalSet : j < Len(Outcome.parameters)

\* the rows of results that belong to the interval of the last call
RowsOfLastInterval ==
    {k \in 1..Len(results[1]) : results[1][k].t_start = LastInterval[1]}

\* C12: fit_interval returns a result only if the fitter did not raise, the
\* statistic is finite, the covariance exists without NaN, the error array
\* has as many rows as the parameter vector and every evaluated relative
\* error is below the threshold; otherwise it returns None and no row is
\* added to the results for that interval.
C12_AcceptanceGate ==
    FitCalled =>
        /\ Accepted =>
            /\ ~FitterRaised
            /\ StatisticFinite
            /\ CovarianceValid
            /\ ErrorRowsMatch
            /\ \A j \in EvalSet : BelowThreshold(j)
            /\ Cardinality(RowsOfLastInterval) = 1
        /\ ~Accepted => RowsOfLastInterval = {}

\* C12 witness: an earlier interval was rejected and the last one accepted.
C12_Witness ==
    /\ FitCalled
    /\ Accepted
    /\ Len(results[1]) < loop_i

\* C13: the gate is strict: with every other check passed, a maximum
\* evaluated relative error equal to the threshold is rejected, and one
\* below it is accepted.
C13_GateStrict ==
    GateReached =>
        /\ ((\A j \in EvalSet : BelowThreshold(j) \/ AtThreshold(j))
                /\ (\E j \in EvalSet : AtThreshold(j)))
            => ~Accepted
        /\ (\A j \in EvalSet : BelowThreshold(j)) => Accepted

\* C13 witness: the largest evaluated relative error is exactly the
\* threshold.
C13_Witness ==
    /\ GateReached
    /\ \A j \in EvalSet : BelowThreshold(j) \/ AtThreshold(j)
    /\ \E j \in EvalSet : AtThreshold(j)
    /\ ~Accepted

\* C14: with every other check passed, the call is accepted exactly when
\* each parameter listed in eval_indices has its mean relative error below
\* the threshold (the maximum over eval_indices is below it): the errors of
\* the parameters outside eval_indices do not count.
C14_OnlyEvalIndicesCount ==
    GateReached => (Accepted <=> \A j \in EvalSet : BelowThreshold(j))

\* C14 witness: a fit accepted although a parameter outside eval_indices is
\* not below the threshold.
C14_Witness ==
    /\ GateReached
    /\ Accepted
    /\ \E j \in 0..(Len(Outcome.parameters) - 1) :
        j \notin EvalSet /\ ~BelowThreshold(j)

\* run_spectral_analysis got past initialize_model and precompute_responses
LoopEntered == results # None

RunOver == pcFit \in {"done", "raised"}

\* C15: in a run that entered the loop every interval of time_ranges is
\* attempted exactly once, in input order: when the run is over the fitters
\* constructed are those of intervals 1, 2, ..., n in that order, and
\* fit is invoked at most once on each.
C15_EveryIntervalOnce ==
    (LoopEntered /\ RunOver)
        => /\ loop_i = Len(time_ranges[1])
           /\ Len(fits) = Len(time_ranges[1])
           /\ \A k \in 1..Len(fits) : fits[k].interval = k

\* C16: a failure in a step of one interval is confined to that interval:
\* every step taken inside the loop moves on to the next interval or
\* returns the results, and never ends the run by raising.
C16_FailureConfined ==
    [][pcFit = "loop" => /\ pcFit' \in {"loop", "done"}
                         /\ loop_i' = loop_i + 1]_vars

NamesRegisteredModel ==
    /\ fit_params.model_expression # None
    /\ \E name \in {"Band", "PowerLaw", "Comptonized", "BlackBody"} :
        fit_params.model_expression[1] = <<name, "(", ")">>

\* C18: initialize_model fails with the invalid-model error when
\* model_expression is absent or empty, when it does not evaluate to one of
\* the registered models, or when eval_indices is missing, and
\* run_spectral_analysis then ends before any response is interpolated or
\* any interval fitted.
C18_InvalidModelSpecAborts ==
    (pcFit # "idle"
        /\ (~NamesRegisteredModel \/ fit_params.eval_indices = None))
        => /\ pcFit = "raised"
           /\ fitErr = "ValueError"
           /\ interpolations = <<>>
           /\ rsps_interpoladas = None
           /\ fits = <<>>

\* x is the midpoint of (t0, t1)
IsMidpoint(x, t0, t1) ==
    ~x.nan /\ 2 * (x.int * x.den + x.num) = (t0 + t1) * x.den

\* C19: all response interpolations happen before the first fit: once a
\* fitter exists, each (interval, detector) pair has been interpolated
\* exactly once, at the midpoint (t0 + t1) / 2 of its interval, and the
\* fitter of interval i was given exactly the i-th precomputed list, the
\* responses of the detectors at the midpoint of interval i.
C19_ResponsesPrecomputed ==
    fits # <<>> =>
        LET tr == time_ranges[1]
            dets == {"nai1", "nai2", "bgo1"}
        IN  /\ \A k \in 1..Len(tr), d \in dets :
                Cardinality({c \in 1..Len(interpolations) :
                                /\ interpolations[c].interval = k
                                /\ interpolations[c].det = d}) = 1
            /\ Len(interpolations) = Len(tr) * Cardinality(dets)
            /\ \A c \in 1..Len(interpolations) :
                IsMidpoint(interpolations[c].tcent,
                           tr[interpolations[c].interval][1],
                           tr[interpolations[c].interval][2])
            /\ \A k \in 1..Len(fits) :
                LET i == fits[k].interval
                IN  /\ fits[k].rsps = rsps_interpoladas[1][i]
                    /\ {fits[k].rsps[d].det :
                            d \in 1..Len(fits[k].rsps)} = dets
                    /\ \A d \in 1..Len(fits[k].rsps) :
                        IsMidpoint(fits[k].rsps[d].tcent,
                                   tr[i][1], tr[i][2])

\* C19 witness: the fitters of two intervals have been constructed.
C19_Witness ==
    /\ Len(fits) >= 2
    /\ fits[2].interval = 2
    /\ fits[1].rsps # fits[2].rsps

-----------------------------------------------------------------------------
(* Properties of save_results *)

SaveCalled == results_arg # None

-----------------------------------------------------------------------------
(* run_full_analysis *)

\* the steps of run_full_analysis, in order
FullSteps ==
    <<"init", "load_data", "calculate_t90", "fit_backgrounds", "detect_burst",
      "define_time_intervals", "run_spectral_analysis", "save_results">>

StepNo(op) == CHOOSE i \in 1..Len(FullSteps) : FullSteps[i] = op

\* the run has a fatal condition at step op: it got no further, it did not
\* return from that step, and nothing was saved
EndsAt(op) ==
    /\ StepNo(lastOp) <= StepNo(op)
    /\ lastOp = op => err # "none"
    /\ results_arg = None
    /\ csv_file = None

DegenerateInput ==
    SumSeq(CurveCounts) = 0 \/ Len(CurveCounts) < 2

NoBurstInCurve == Detect(lightcurve, cfg).raised

WindowInvalid ==
    /\ ~NoBurstInCurve
    /\ InvalidRange(ResolveStart(cfg.analysis_start,
                                 Detect(lightcurve, cfg).start),
                    ResolveStop(cfg.analysis_stop,
                                Detect(lightcurve, cfg).end))

\* C21: in run_full_analysis a fatal error in any step (a missing input
\* file, a degenerate T90 input, no burst detected, an invalid range, an
\* invalid model specification) ends the run at that step: no later step
\* executes, save_results is not called and no result file is written.
C21_FatalErrorEndsRun ==
    /\ files # "all" => EndsAt("load_data")
    /\ DegenerateInput => EndsAt("calculate_t90")
    /\ NoBurstInCurve => EndsAt("detect_burst")
    /\ WindowInvalid => EndsAt("define_time_intervals")
    /\ (~NamesRegisteredModel \/ fit_params.eval_indices = None)
           => EndsAt("run_spectral_analysis")

-----------------------------------------------------------------------------
(* the repeated analysis *)

BothRunsOver == run_no = 3

\* the limit on the seconds of a fit
TimeLimit ==
    IF fit_params.max_fit_time = None THEN 10 ELSE fit_params.max_fit_time[1]

\* in both runs each interval's fit was on the same side of the limit
SameSideOfLimit ==
    \A k \in 1..Len(outcomes2) :
        (outcomes1[k].elapsed > TimeLimit) = (outcomes2[k].elapsed > TimeLimit)

\* C22 as stated: two runs of run_spectral_analysis plus aggregation on
\* identical inputs and configuration, with a fitter returning identical
\* outputs, produce identical tables, whatever the wall-clock time of the
\* fits.
C22_RunsAgreeAsStated == BothRunsOver => table = table1

\* C22: two runs of run_spectral_analysis plus aggregation on identical
\* inputs and configuration, with a fitter returning identical outputs,
\* produce identical tables whenever each interval's fit falls on the same
\* side of max_fit_time in both runs.
C22_RunsAgree == (BothRunsOver /\ SameSideOfLimit) => table = table1

\* both runs over, a fit of another duration on the same side of the limit,
\* and rows in the table
C22_Witness ==
    /\ BothRunsOver
    /\ SameSideOfLimit
    /\ outcomes1 # outcomes2
    /\ table # None
    /\ table[1] # <<>>

-----------------------------------------------------------------------------
(* the duration check *)

\* the fitter call of the last interval returned
FitReturned == FitCalled /\ Outcome.ctor = "ok" /\ Outcome.fit = "returns"

\* the fitter built for the last interval, and the model it was given
LastFitter == fits[Len(fits)]

\* C23: the max_fit_time check is made only after the fitter call has
\* returned, so the fit is never interrupted: the fitter of the interval ran
\* to its end and wrote its model.  A fit that took longer than max_fit_time
\* is rejected even when it was otherwise acceptable, as a soft failure: no
\* row is added, run_spectral_analysis does not raise and the loop goes on
\* to the next interval.
C23_SlowFitRejectedAfterwards ==
    (FitReturned /\ Outcome.elapsed > TimeLimit) =>
        /\ LastFitter.interval = lastFit[1].interval
        /\ LastFitter.fit
        /\ lastFit[1].interval \in Range(models[LastFitter.model].state)
        /\ ~Accepted
        /\ RowsOfLastInterval = {}
        /\ loop_i = lastFit[1].interval
        /\ pcFit = "raised" => fitErr = "to_pha"
        /\ pcFit = "done" <=> loop_i = Len(time_ranges[1])

\* C23 witness: an otherwise acceptable fit that took too long was rejected
\* and intervals remain.
C23_Witness ==
    /\ FitReturned
    /\ Outcome.elapsed > TimeLimit
    /\ StatisticFinite
    /\ CovarianceValid
    /\ ErrorRowsMatch
    /\ \A j \in EvalSet : j < Len(Outcome.parameters) /\ BelowThreshold(j)
    /\ ~Accepted
    /\ pcFit = "loop"

-----------------------------------------------------------------------------
(* what the loop shares between intervals *)

\* the step adds one row to results, or none
AppendsAtMostOne ==
    \/ results' = results
    \/ /\ Len(results'[1]) = Len(results[1]) + 1
       /\ SubSeq(results'[1], 1, Len(results[1])) = results[1]

\* C24: during the loop of run_spectral_analysis no step of an interval
\* writes state another interval reads: the template (the reference and the
\* object), eval_indices, the configuration and the precomputed responses
\* stay as they were when the loop started; only results changes, and only
\* by appending.
C24_LoopSharesNothing ==
    [][pcFit = "loop" =>
          /\ model_template' = model_template
          /\ models'[model_template[1]] = models[model_template[1]]
          /\ model_expression' = model_expression
          /\ eval_indices' = eval_indices
          /\ fit_params' = fit_params
          /\ cfg' = cfg
          /\ time_ranges' = time_ranges
          /\ rsps_interpoladas' = rsps_interpoladas
          /\ AppendsAtMostOne]_vars

\* C24 witness: the loop has appended two rows and skipped an interval.
C24_Witness ==
    /\ pcFit \in {"loop", "done"}
    /\ Len(results[1]) >= 2
    /\ loop_i > Len(results[1])

-----------------------------------------------------------------------------
(* GBMAnalysis: prerequisites of the steps *)

\* the step taken is a call of method op
Called(op) == err # "running" /\ lastOp' = op

\* the state of the run: everything but the record of the last call
RunState ==
    <<lightcurve, cfg, phaii7, T5, T95, T90, burst_start, burst_end,
      time_ranges, fitVars, saveVars, analysisVars>>

\* the call raised and changed nothing
Refused == err' \notin {"none", "running"} /\ UNCHANGED RunState

SpectralPrerequisitesMissing ==
    cspecs = None \/ bkgds = None \/ gbm_rsps = None \/ time_ranges = None

\* C25: whatever the order of the calls, fit_backgrounds raises unless T5
\* and T95 have been computed, define_time_intervals raises unless a burst
\* has been detected (also when both manual bounds are configured), and
\* run_spectral_analysis raises unless spectra, backgrounds, responses and
\* time_ranges are all set; a step that raises this way changes none of the
\* run's state, and with its prerequisites met no step raises this way.
C25_PrerequisitesEnforced ==
    [][/\ Called("fit_backgrounds") =>
            IF T5 = None \/ T95 = None THEN Refused /\ err' = "ValueError"
            ELSE err' # "ValueError"
       /\ Called("define_time_intervals") =>
            IF ~Detected THEN Refused /\ err' = "BurstNotDetected"
            ELSE err' # "BurstNotDetected"
       /\ Called("run_spectral_analysis") =>
            IF SpectralPrerequisitesMissing
            THEN Refused /\ err' = "ValueError"
            ELSE err' = "running"]_vars

\* C25 witness: define_time_intervals was refused with both manual bounds
\* configured and T90 computed, no burst detected.
C25_Witness ==
    /\ lastOp = "define_time_intervals"
    /\ err = "BurstNotDetected"
    /\ cfg.analysis_start # None
    /\ cfg.analysis_stop # None
    /\ T90 # None
    /\ ~Detected

-----------------------------------------------------------------------------
(* get_summary *)

SummaryCalled == lastOp = "get_summary" /\ summary # None

\* C27: once detect_burst has succeeded, get_summary reports Burst_duration
\* = burst_end - burst_start for every detected interval, one that starts
\* (or ends) at exactly 0.0 included; it is None only when no burst has been
\* detected.
C27_BurstDurationReported ==
    SummaryCalled =>
        summary[1].Burst_duration =
            IF Detected THEN Some(burst_end[1] - burst_start[1]) ELSE None

-----------------------------------------------------------------------------
(* a failed initialize_model *)

InitializeModelRaised == pcFit = "initialize_model" /\ fitErr = "ValueError"

\* C26: a failed initialize_model leaves the manager without a usable
\* template: when it raises (a missing eval_indices included)
\* model_template stays unset, so that a later fit_interval or
\* create_model_for_interval runs the initialisation again and fails again,
\* and never fits with eval_indices unset.
C26_FailedInitLeavesNoTemplate ==
    /\ InitializeModelRaised => model_template = None
    /\ (pcFit = "create_model_for_interval" /\ Falsy(fit_params.eval_indices))
           => fitErr = "ValueError"
    /\ (FitCalled /\ Falsy(fit_params.eval_indices)) =>
           /\ fits = <<>>
           /\ ~Accepted

-----------------------------------------------------------------------------
(* the result file after a run *)

\* the rows the output file holds (none when there is no file)
FileRows == IF csv_file = None THEN <<>> ELSE csv_file[1]

\* C28: after a run that reached save_results the result file holds
\* exactly one row per accepted interval of that run; a run with no
\* accepted interval leaves no rows written by an earlier run.
C28_FileHoldsRowsOfRun ==
    SaveCalled =>
        /\ Len(FileRows) = Len(results_arg[1])
        /\ Range(FileRows) = Range(results_arg[1])

-----------------------------------------------------------------------------
(* BlockRunner: the base configuration and the loop over the objects *)

\* config.yaml as loaded at construction, written out
LoadedConfig == Flatten(LoadedDicts, 1)

\* the items of a written configuration under one of its sections
Section(written, name) == {q \in written : q[1][1] = name}

\* the object of objects.json that has the name
ObjectNamed(name) ==
    objects[CHOOSE i \in 1..Len(objects) : objects[i].name = name]

\* C29: run_object never modifies the base configuration: after any
\* sequence of run_object calls base_config.config equals the configuration
\* loaded at construction (and the dicts of objects.json are as loaded),
\* and no override of an object carries over to a later object: an object
\* without model_config and analysis_config is analysed with the base
\* spectral_fitting section, one without plotting_config with the base
\* plotting section and its own plots_dir.
C29_BaseConfigUntouched ==
    /\ Flatten(dicts, BaseConfig) = LoadedConfig
    /\ dicts = LoadedDicts
    /\ \A j \in 1..Len(yamls) :
        LET obj == ObjectNamed(yamls[j].objeto)
        IN  /\ (obj.model_config = 0 /\ obj.analysis_config = 0) =>
                  Section(yamls[j].config, "spectral_fitting")
                      = Section(LoadedConfig, "spectral_fitting")
            /\ obj.plotting_config = 0 =>
                  Section(yamls[j].config, "plotting")
                      = Section(LoadedConfig, "plotting")
                        \cup {<<<<"plotting", "plots_dir">>,
                                <<"results", "/plots/", obj.name>>>>}
            /\ Section(yamls[j].config, "output")
                  = {<<<<"output", "file_name">>,
                       <<"results", "/", obj.name, "_fits.csv">>>>}

\* C29 witness: an object with every override was analysed, then one with
\* none.
C29_Witness ==
    /\ pcBlock = "done"
    /\ Len(yamls) = 2
    /\ ObjectNamed(yamls[1].objeto).model_config # 0
    /\ ObjectNamed(yamls[1].objeto).analysis_config # 0
    /\ ObjectNamed(yamls[1].objeto).plotting_config # 0
    /\ ObjectNamed(yamls[2].objeto).model_config = 0
    /\ ObjectNamed(yamls[2].objeto).analysis_config = 0
    /\ ObjectNamed(yamls[2].objeto).plotting_config = 0
    /\ Section(yamls[1].config, "spectral_fitting")
           # Section(LoadedConfig, "spectral_fitting")

\* run_all_objects is over, by returning or by raising
BlockOver == pcBlock \in {"done", "raised"}

\* C30: run_all_objects attempts every selected object exactly once, in
\* list order; an object whose data files are missing or whose analysis
\* raises is counted as failed and does not stop the later objects; the
\* successes and failures add up to the number of objects selected; and
\* after each run_object the file temp_<name>.yaml does not exist.
C30_EveryObjectAttemptedOnce ==
    /\ temp_files = {}
    /\ BlockOver =>
        /\ pcBlock = "done"
        /\ attempts = [i \in 1..Len(selected) |-> selected[i].name]
        /\ exitosos + fallidos = Len(selected)
        /\ exitosos = Len(block_results)

====
